---- MODULE Spec2Model ----
(***************************************************************************)
(* A model of the Linear MCP tools: the catalogue of src/src/linear.py    *)
(* over the GraphQL client of src/src/client.py, and the older tools of   *)
(* src/main.py over graphql_request.  One tool invocation runs at a time; *)
(* it is suspended at every round trip through ctx.dispatch, and the      *)
(* answer of the dispatch channel is chosen by the environment.           *)
(***************************************************************************)
EXTENDS Integers, Sequences, FiniteSets, TLC

VARIABLES
    op,        \* the tool being invoked ("" when idle); main.py's tools are prefixed main_
    args,      \* its arguments
    pc,        \* "idle", "resolve" (awaiting a resolver's dispatch), "act" (awaiting the tool's own dispatch), "done"
    calls,     \* the HttpRequest bodies handed to ctx.dispatch in this invocation, in order
    resps,     \* the dispatch responses received in this invocation, in order
    resolved,  \* the ids the resolvers have returned so far (team_id, issue_id, team_ids)
    outcome,   \* what the invocation returned or raised
    suspended  \* the other invocations in flight: the locals of each, as it waits at an await

vars == <<op, args, pc, calls, resps, resolved, outcome, suspended>>

\* ---------------------------------------------------------------- bounds

MaxNodes == 2      \* longest node list the remote answers with
MaxTeamKeys == 2   \* longest team_keys list given to create_project
MaxOpts == 1       \* most optional arguments supplied in one call
MaxInvocations == 2 \* most invocations in flight at once

\* ---------------------------------------------------------------- values

NONE == "<None>"        \* Python None / an omitted optional argument
NULL == "<null>"        \* JSON null
ABSENT == "<absent>"    \* a key that is not in a mapping

Last(s) == s[Len(s)]

\* Python truthiness of a str / list argument (None, "" and [] are falsy).
Truthy(v) == v \notin {NONE, "", "[]"}

\* str.upper() on the strings the model passes around.
upper(s) ==
    CASE s = "eng" -> "ENG"
      [] s = "Eng" -> "ENG"
      [] s = "ops" -> "OPS"
      [] s = "eng-1" -> "ENG-1"
      [] s = "Eng-1" -> "ENG-1"
      [] OTHER -> s

TeamKeyArgs == {"eng", "ENG"}
\* The team_keys given to create_project are the first keys of this list.
TeamKeyList == [k \in 1..MaxTeamKeys |-> IF k % 2 = 1 THEN "eng" ELSE "ops"]
OptTeamKeyArgs == {NONE, "", "eng"}
IdentifierArgs == {"eng-1", "ENG-1"}
IdArgs == {"id9"}
RemoteIds == {"id1", "id2"}

\* Sequences over S of length at most n.
RECURSIVE SeqsUpTo(_, _)
SeqsUpTo(S, n) ==
    IF n = 0 THEN {<<>>}
    ELSE LET P == SeqsUpTo(S, n - 1)
         IN  P \cup {Append(p, x) : p \in {q \in P : Len(q) = n - 1}, x \in S}

\* ---------------------------------------------------------------- dispatch channel

NoBody == [shape |-> ABSENT]

\* The data mapping of a GraphQL answer: the node list under the queried root
\* field (root is ABSENT when the field is missing) and the root object of a
\* mutation or single-object query (its payload) with its success flag.
EmptyData == [kind |-> "map", root |-> ABSENT, nodes |-> <<>>, payload |-> ABSENT, success |-> ABSENT, entity |-> ABSENT]
NullData == [kind |-> NULL]
AbsentData == [kind |-> ABSENT]

NodeLists == SeqsUpTo(RemoteIds, MaxNodes)

NodesData == {[EmptyData EXCEPT !.root = "map", !.nodes = n] : n \in NodeLists}

PayloadData ==
    {[EmptyData EXCEPT !.payload = NULL]}
    \cup {[EmptyData EXCEPT !.payload = "map", !.success = "true"]}
    \cup {[EmptyData EXCEPT !.payload = "map", !.success = s, !.entity = "id1"] :
            s \in {ABSENT, NULL, "false", "true"}}

DictBody(errors, data) == [shape |-> "dict", errors |-> errors, data |-> data]
OtherBody == [shape |-> "list", errors |-> ABSENT, data |-> AbsentData]

\* The bodies a request may be answered with.
Bodies(req) ==
    LET D == IF req.kind = "mutation" \/ req.root = "viewer" THEN PayloadData \cup {EmptyData}
             ELSE NodesData \cup {EmptyData}
        some == CHOOSE d \in D : d.nodes # <<>> \/ d.success = "true"
    IN  {OtherBody, DictBody("[E1]", AbsentData), DictBody("[E1]", some), DictBody(NULL, some),
         DictBody(ABSENT, AbsentData), DictBody(ABSENT, NullData)}
        \cup {DictBody(ABSENT, d) : d \in D}

Statuses == {200, 400, 500}

TransportFailures ==
    {[success |-> FALSE, code |-> "TIMEOUT", message |-> "timed out", status |-> 0, body |-> NoBody]}

Responses(req) ==
    TransportFailures
    \cup {[success |-> TRUE, code |-> ABSENT, message |-> ABSENT, status |-> s, body |-> b] :
            s \in Statuses, b \in Bodies(req)}

\* ---------------------------------------------------------------- results

NoOutcome == [kind |-> "none"]
Return(v) == [kind |-> "return", value |-> v]

\* An exception: its class, the literal f-string of its message, and the values
\* the f-string interpolates (ABSENT / -1 / NoBody for the ones it does not).
Error(exc, text) ==
    [exc |-> exc, text |-> text, code |-> ABSENT, message |-> ABSENT, status |-> -1,
     body |-> NoBody, errors |-> ABSENT, name |-> ABSENT]
Raise(e) == [kind |-> "raise", error |-> e]

\* ---------------------------------------------------------------- GraphQL client

\* gql as it would be if it read `data` before looking for `errors`.
gql_data_first(response) ==
    IF ~response.success
    THEN Raise([Error("LinearAPIError", "Dispatch error: {code}") EXCEPT !.code = response.code])
    ELSE IF response.status >= 400
    THEN Raise([Error("LinearAPIError", "API error: {body}") EXCEPT !.body = response.body])
    ELSE LET result == response.body
         IN  IF result.shape = "dict" /\ result.data.kind = "map"
             THEN Return(result.data)
             ELSE IF result.shape = "dict" /\ result.errors # ABSENT
             THEN Raise([Error("LinearAPIError", "GraphQL error: {errors}") EXCEPT !.errors = result.errors])
             ELSE Return(EmptyData)

gql(response) ==
    IF ~response.success
    THEN Raise([Error("LinearAPIError", "Dispatch error: {code}") EXCEPT !.code = response.code])
    ELSE IF response.status >= 400
    THEN Raise([Error("LinearAPIError", "API error: {body}") EXCEPT !.body = response.body])
    ELSE LET result == response.body
         IN  IF result.shape = "dict" /\ result.errors # ABSENT
             THEN Raise([Error("LinearAPIError", "GraphQL error: {errors}") EXCEPT !.errors = result.errors])
             ELSE IF result.shape = "dict"
                  THEN Return(IF result.data.kind = ABSENT THEN EmptyData ELSE result.data)
                  ELSE Return(EmptyData)

graphql_request(response) ==
    IF ~response.success
    THEN Raise([Error("Exception", "Dispatch error: {code} - {message}")
                  EXCEPT !.code = response.code, !.message = response.message])
    ELSE IF response.status >= 400
    THEN Raise([Error("Exception", "Linear API error ({status}): {body}")
                  EXCEPT !.status = response.status, !.body = response.body])
    ELSE LET result == response.body
         IN  IF result.shape = "dict" /\ result.errors # ABSENT
             THEN Raise([Error("Exception", "GraphQL error: {errors}") EXCEPT !.errors = result.errors])
             ELSE IF result.shape = "dict"
                  THEN Return(IF result.data.kind = ABSENT THEN EmptyData ELSE result.data)
                  ELSE Return(EmptyData)

\* data.get(root, {}).get("nodes", []) on what the client returned: a None
\* (a null data) has no .get.
AttributeError == Raise(Error("AttributeError", "'NoneType' object has no attribute 'get'"))
KeyError == Raise(Error("KeyError", "{key}"))

Nodes(data) == IF data.root = ABSENT THEN <<>> ELSE data.nodes

\* ---------------------------------------------------------------- resolvers

\* The body of one HttpRequest: the function that dispatched it, the query text
\* (a sequence: the literal text and whatever the code interpolates into it),
\* whether it is a query or a mutation, its root field, and the variables.
Request(by, kind, root, text, variables) ==
    [by |-> by, kind |-> kind, root |-> root, text |-> text, variables |-> variables]

\* get_team_id's request as it would be if the key were looked up as given.
get_team_id_call_as_given(team_key) ==
    Request("get_team_id", "query", "teams",
            <<"query($key: String!) { teams(filter: { key: { eq: $key } }) { nodes { id } } }">>,
            [key |-> team_key])

get_team_id_call(team_key) ==
    Request("get_team_id", "query", "teams",
            <<"query($key: String!) { teams(filter: { key: { eq: $key } }) { nodes { id } } }">>,
            [key |-> upper(team_key)])

\* get_team_id as it would be if it passed the key on when no team matches.
get_team_id_lenient(team_key, response) ==
    LET data == gql(response)
    IN  IF data.kind = "raise" THEN data
        ELSE IF data.value.kind = NULL THEN AttributeError
        ELSE LET teams == Nodes(data.value)
             IN  IF teams = <<>> THEN Return(team_key) ELSE Return(teams[1])

get_team_id(team_key, response) ==
    LET data == gql(response)
    IN  IF data.kind = "raise" THEN data
        ELSE IF data.value.kind = NULL THEN AttributeError
        ELSE LET teams == Nodes(data.value)
             IN  IF teams = <<>>
                 THEN Raise([Error("LinearAPIError", "Team '{team_key}' not found") EXCEPT !.name = team_key])
                 ELSE Return(teams[1])

get_issue_id_call(identifier) ==
    Request("get_issue_id", "query", "issues",
            <<"query($id: String!) { issues(filter: { identifier: { eq: $id } }, first: 1) { nodes { id } } }">>,
            [id |-> upper(identifier)])

get_issue_id(identifier, response) ==
    LET data == gql(response)
    IN  IF data.kind = "raise" THEN data
        ELSE IF data.value.kind = NULL THEN AttributeError
        ELSE LET issues == Nodes(data.value)
             IN  IF issues = <<>>
                 THEN Raise([Error("LinearAPIError", "Issue '{identifier}' not found") EXCEPT !.name = identifier])
                 ELSE Return(issues[1])

\* ---------------------------------------------------------------- steps of an invocation

Init ==
    /\ op = ""
    /\ args = <<>>
    /\ pc = "idle"
    /\ calls = <<>>
    /\ resps = <<>>
    /\ resolved = <<>>
    /\ outcome = NoOutcome
    /\ suspended = <<>>

\* The tool is called with arguments a.
Invoke(o, a) ==
    /\ pc = "idle"
    /\ op' = o
    /\ args' = a
    /\ resps' = <<>>
    /\ UNCHANGED suspended

\* The code runs up to `await ctx.dispatch(req)` and is suspended there.
Await(req, label) ==
    /\ calls' = Append(calls, req)
    /\ pc' = label
    /\ outcome' = NoOutcome

\* The invocation ends, returning or raising.
Done(out) ==
    /\ pc' = "done"
    /\ outcome' = out
    /\ UNCHANGED calls

\* The tool is called and suspended at its own dispatch.
Start(o, a, req) ==
    /\ Invoke(o, a)
    /\ Await(req, "act")
    /\ resolved' = <<>>

\* The tool is called and suspended at a resolver's dispatch.
StartResolve(o, a, req) ==
    /\ Invoke(o, a)
    /\ Await(req, "resolve")
    /\ resolved' = <<>>

\* The tool is called and raises before any dispatch.
Reject(o, a, out) ==
    /\ Invoke(o, a)
    /\ Done(out)
    /\ resolved' = <<>>

\* Tool o is suspended at the dispatch labelled `label`.
Awaiting(o, label) ==
    /\ pc = label
    /\ op = o

\* The awaited dispatch answers r.
Receive(r) ==
    /\ resps' = Append(resps, r)
    /\ UNCHANGED <<op, args, suspended>>

\* The awaited dispatch answers r and the invocation ends with `out`.
Finish(r, out) ==
    /\ Receive(r)
    /\ Done(out)
    /\ UNCHANGED resolved

\* The awaited resolver answers r; on an id the code goes on to dispatch
\* req (built from the ids resolved so far), on a raise the invocation ends.
Resolved(r, id, label, req) ==
    /\ Receive(r)
    /\ IF id.kind = "raise"
       THEN Done(id) /\ UNCHANGED resolved
       ELSE /\ resolved' = Append(resolved, id.value)
            /\ Await(req, label)

\* The host takes the result; the next invocation may start.
Reset ==
    /\ pc = "done"
    /\ op' = ""
    /\ args' = <<>>
    /\ pc' = "idle"
    /\ calls' = <<>>
    /\ resps' = <<>>
    /\ resolved' = <<>>
    /\ outcome' = NoOutcome
    /\ UNCHANGED suspended

\* ---------------------------------------------------------------- building and parsing

Limits == {1}

NoVariables == [k \in {} |-> NULL]

\* m[k] = v on a Python dict.
Put(m, k, v) == [x \in DOMAIN m \cup {k} |-> IF x = k THEN v ELSE m[x]]

\* The values an optional argument takes when it is supplied.
ArgValues(f) ==
    CASE f = "priority" -> {"NO_PRIORITY", "HIGH"}
      [] f = "estimate" -> {"-1", "0", "3"}
      [] f = "label_ids" -> {"[]", "[L1]"}
      [] OTHER -> {"", "x"}

\* Optional-argument assignments with at most n arguments supplied.
RECURSIVE Optionals(_, _)
Optionals(fields, n) ==
    IF n = 0 THEN {[f \in fields |-> NONE]}
    ELSE LET P == Optionals(fields, n - 1)
         IN  P \cup UNION {{[p EXCEPT ![f] = v] : v \in ArgValues(f)} : p \in P, f \in fields}

IssuePriority(member) ==
    CASE member = "NO_PRIORITY" -> "0"
      [] member = "URGENT" -> "1"
      [] member = "HIGH" -> "2"
      [] member = "MEDIUM" -> "3"
      [] member = "LOW" -> "4"

\* An int as an f-string writes it into a text.
str(n) == CASE n = 0 -> "0" [] n = 1 -> "1" [] n = 2 -> "2" [] n = 3 -> "3" [] OTHER -> "<int>"

EstimateValue(e) == CASE e = "-1" -> -1 [] e = "0" -> 0 [] e = "3" -> 3

\* The records the tools return: each is known by the id of the node it was
\* built from (what parse_issue makes of a whole node is under ParseSpec).
Record(type, id) == [type |-> type, id |-> id]
None == [type |-> "None"]
Bool(flag) == [type |-> "bool", flag |-> flag]
List(type, nodes) == [type |-> "list", items |-> [k \in 1..Len(nodes) |-> Record(type, nodes[k])]]

\* [Model(...) for n in data.get(root, {}).get("nodes", [])]
ListOf(type, data) ==
    IF data.kind = "raise" THEN data
    ELSE IF data.value.kind = NULL THEN AttributeError
    ELSE Return(List(type, Nodes(data.value)))

\* Created as it would be if it raised only on an explicit `success: false`.
Created_unless_false(type, text, data) ==
    IF data.kind = "raise" THEN data
    ELSE IF data.value.kind = NULL \/ data.value.payload = NULL THEN AttributeError
    ELSE IF data.value.payload # ABSENT /\ data.value.success = "false"
    THEN Raise(Error("LinearAPIError", text))
    ELSE IF data.value.entity = ABSENT THEN KeyError
    ELSE Return(Record(type, data.value.entity))

\* result = data.get(root, {}); if not result.get("success"): raise ...; result[entity]
Created(type, text, data) ==
    IF data.kind = "raise" THEN data
    ELSE IF data.value.kind = NULL \/ data.value.payload = NULL THEN AttributeError
    ELSE IF data.value.payload = ABSENT \/ data.value.success # "true"
    THEN Raise(Error("LinearAPIError", text))
    ELSE IF data.value.entity = ABSENT THEN KeyError
    ELSE Return(Record(type, data.value.entity))

\* Deleted as it would be if a delete raised on a false flag, as a create does.
Deleted_or_raise(data) ==
    IF data.kind = "raise" THEN data
    ELSE IF data.value.kind = NULL \/ data.value.payload = NULL THEN AttributeError
    ELSE IF data.value.payload = ABSENT \/ data.value.success # "true"
    THEN Raise(Error("LinearAPIError", "Failed to delete"))
    ELSE Return(Bool(data.value.success))

\* data.get(root, {}).get("success", False)
Deleted(data) ==
    IF data.kind = "raise" THEN data
    ELSE IF data.value.kind = NULL \/ data.value.payload = NULL THEN AttributeError
    ELSE IF data.value.payload = ABSENT \/ data.value.success = ABSENT THEN Return(Bool("false"))
    ELSE Return(Bool(data.value.success))

\* ---------------------------------------------------------------- user and team tools

get_me ==
    \/ /\ pc = "idle"
       /\ Start("get_me", <<>>,
                Request("get_me", "query", "viewer", <<"query { viewer { id name email } }">>, NoVariables))
    \/ /\ Awaiting("get_me", "act")
       /\ \E r \in Responses(Last(calls)) :
            LET data == gql(r)
            IN  Finish(r, IF data.kind = "raise" THEN data
                          ELSE IF data.value.kind = NULL \/ data.value.payload = NULL THEN AttributeError
                          ELSE IF data.value.payload = ABSENT \/ data.value.entity = ABSENT THEN KeyError
                          ELSE Return(Record("User", data.value.entity)))

list_users ==
    \/ /\ pc = "idle"
       /\ \E limit \in Limits :
            Start("list_users", [limit |-> limit],
                  Request("list_users", "query", "users",
                          <<"query($first: Int!) { users(first: $first) { nodes { id name email active } } }">>,
                          [first |-> limit]))
    \/ /\ Awaiting("list_users", "act")
       /\ \E r \in Responses(Last(calls)) : Finish(r, ListOf("User", gql(r)))

list_teams ==
    \/ /\ pc = "idle"
       /\ Start("list_teams", <<>>,
                Request("list_teams", "query", "teams", <<"query { teams { nodes { id name key } } }">>, NoVariables))
    \/ /\ Awaiting("list_teams", "act")
       /\ \E r \in Responses(Last(calls)) : Finish(r, ListOf("Team", gql(r)))

list_workflow_states_query(ids) ==
    Request("list_workflow_states", "query", "workflowStates",
            <<"query($teamId: ID!) { workflowStates(filter: { team: { id: { eq: $teamId } } }) { nodes { id name type } } }">>,
            [teamId |-> ids[1]])

list_workflow_states ==
    \/ /\ pc = "idle"
       /\ \E team_key \in TeamKeyArgs :
            StartResolve("list_workflow_states", [team_key |-> team_key], get_team_id_call(team_key))
    \/ /\ Awaiting("list_workflow_states", "resolve")
       /\ \E r \in Responses(Last(calls)) :
            LET team_id == get_team_id(args.team_key, r)
            IN  Resolved(r, team_id, "act", list_workflow_states_query(<<team_id.value>>))
    \/ /\ Awaiting("list_workflow_states", "act")
       /\ \E r \in Responses(Last(calls)) : Finish(r, ListOf("WorkflowState", gql(r)))

\* ---------------------------------------------------------------- issue tools

ListIssuesFilters == {"team_key", "assignee_id", "state_id", "project_id", "cycle_id"}

\* list_issues as it would be if only an empty string, and not an omitted
\* argument, left a filter out.
list_issues_filters_unless_empty(a) ==
    (IF a.team_key # "" THEN <<"team: { key: { eq: $teamKey } }">> ELSE <<>>)
    \o (IF a.assignee_id # "" THEN <<"assignee: { id: { eq: $assigneeId } }">> ELSE <<>>)
    \o (IF a.state_id # "" THEN <<"state: { id: { eq: $stateId } }">> ELSE <<>>)
    \o (IF a.project_id # "" THEN <<"project: { id: { eq: $projectId } }">> ELSE <<>>)
    \o (IF a.cycle_id # "" THEN <<"cycle: { id: { eq: $cycleId } }">> ELSE <<>>)

\* The filter clauses and the variable declarations of list_issues, in the
\* order the code appends them.
list_issues_filters(a) ==
    (IF Truthy(a.team_key) THEN <<"team: { key: { eq: $teamKey } }">> ELSE <<>>)
    \o (IF Truthy(a.assignee_id) THEN <<"assignee: { id: { eq: $assigneeId } }">> ELSE <<>>)
    \o (IF Truthy(a.state_id) THEN <<"state: { id: { eq: $stateId } }">> ELSE <<>>)
    \o (IF Truthy(a.project_id) THEN <<"project: { id: { eq: $projectId } }">> ELSE <<>>)
    \o (IF Truthy(a.cycle_id) THEN <<"cycle: { id: { eq: $cycleId } }">> ELSE <<>>)

\* list_issues as it would be if it declared the variable of every filter that
\* is not None, the empty string included.
list_issues_var_decl_if_given(a) ==
    <<"$first: Int!">>
    \o (IF a.team_key # NONE THEN <<"$teamKey: String!">> ELSE <<>>)
    \o (IF a.assignee_id # NONE THEN <<"$assigneeId: ID!">> ELSE <<>>)
    \o (IF a.state_id # NONE THEN <<"$stateId: ID!">> ELSE <<>>)
    \o (IF a.project_id # NONE THEN <<"$projectId: ID!">> ELSE <<>>)
    \o (IF a.cycle_id # NONE THEN <<"$cycleId: ID!">> ELSE <<>>)

list_issues_var_decl(a) ==
    <<"$first: Int!">>
    \o (IF Truthy(a.team_key) THEN <<"$teamKey: String!">> ELSE <<>>)
    \o (IF Truthy(a.assignee_id) THEN <<"$assigneeId: ID!">> ELSE <<>>)
    \o (IF Truthy(a.state_id) THEN <<"$stateId: ID!">> ELSE <<>>)
    \o (IF Truthy(a.project_id) THEN <<"$projectId: ID!">> ELSE <<>>)
    \o (IF Truthy(a.cycle_id) THEN <<"$cycleId: ID!">> ELSE <<>>)

list_issues_variables(a, limit) ==
    LET v0 == [first |-> limit]
        v1 == IF Truthy(a.team_key) THEN Put(v0, "teamKey", upper(a.team_key)) ELSE v0
        v2 == IF Truthy(a.assignee_id) THEN Put(v1, "assigneeId", a.assignee_id) ELSE v1
        v3 == IF Truthy(a.state_id) THEN Put(v2, "stateId", a.state_id) ELSE v2
        v4 == IF Truthy(a.project_id) THEN Put(v3, "projectId", a.project_id) ELSE v3
    IN  IF Truthy(a.cycle_id) THEN Put(v4, "cycleId", a.cycle_id) ELSE v4

list_issues_query(a, limit) ==
    LET filters == list_issues_filters(a)
        filter_str == IF filters # <<>> THEN <<"filter: {">> \o filters \o <<"}">> ELSE <<>>
    IN  Request("list_issues", "query", "issues",
                <<"query(">> \o list_issues_var_decl(a) \o <<") { issues(first: $first, ">> \o filter_str
                    \o <<") { nodes { {ISSUE_FIELDS} } } }">>,
                list_issues_variables(a, limit))

\* Every combination of omitted, empty and given filters.
ListIssuesArgs == Optionals(ListIssuesFilters, Cardinality(ListIssuesFilters))

list_issues ==
    \/ /\ pc = "idle"
       /\ \E a \in ListIssuesArgs, limit \in Limits :
            Start("list_issues", [filters |-> a, limit |-> limit], list_issues_query(a, limit))
    \/ /\ Awaiting("list_issues", "act")
       /\ \E r \in Responses(Last(calls)) : Finish(r, ListOf("Issue", gql(r)))

get_issue_query(identifier) ==
    Request("get_issue", "query", "issues",
            <<"query($id: String!) { issues(filter: { identifier: { eq: $id } }, first: 1) { nodes { {ISSUE_FIELDS} } } }">>,
            [id |-> upper(identifier)])

\* get_issue as it would be if it treated no match as get_issue_id does.
get_issue_return_or_raise(data) ==
    IF data.kind = "raise" THEN data
    ELSE IF data.value.kind = NULL THEN AttributeError
    ELSE LET issues == Nodes(data.value)
         IN  IF issues # <<>> THEN Return(Record("Issue", issues[1]))
             ELSE Raise(Error("LinearAPIError", "Issue '{identifier}' not found"))

get_issue_return(data) ==
    IF data.kind = "raise" THEN data
    ELSE IF data.value.kind = NULL THEN AttributeError
    ELSE LET issues == Nodes(data.value)
         IN  IF issues # <<>> THEN Return(Record("Issue", issues[1])) ELSE Return(None)

get_issue ==
    \/ /\ pc = "idle"
       /\ \E identifier \in IdentifierArgs :
            Start("get_issue", [identifier |-> identifier], get_issue_query(identifier))
    \/ /\ Awaiting("get_issue", "act")
       /\ \E r \in Responses(Last(calls)) : Finish(r, get_issue_return(gql(r)))

search_issues ==
    \/ /\ pc = "idle"
       /\ \E query \in {"", "x"}, limit \in Limits :
            Start("search_issues", [query |-> query, limit |-> limit],
                  Request("search_issues", "query", "issueSearch",
                          <<"query($q: String!, $first: Int!) { issueSearch(query: $q, first: $first) { nodes { {ISSUE_FIELDS} } } }">>,
                          [q |-> query, first |-> limit]))
    \/ /\ Awaiting("search_issues", "act")
       /\ \E r \in Responses(Last(calls)) : Finish(r, ListOf("Issue", gql(r)))

CreateIssueOptionals ==
    {"description", "priority", "estimate", "due_date", "assignee_id", "state_id",
     "project_id", "cycle_id", "label_ids", "parent_id"}

create_issue_input(a, team_id) ==
    LET i0 == [title |-> a.title, teamId |-> team_id]
        o == a.opts
        i1 == IF Truthy(o.description) THEN Put(i0, "description", o.description) ELSE i0
        i2 == IF o.priority # NONE THEN Put(i1, "priority", IssuePriority(o.priority)) ELSE i1
        i3 == IF o.estimate # NONE THEN Put(i2, "estimate", o.estimate) ELSE i2
        i4 == IF Truthy(o.due_date) THEN Put(i3, "dueDate", o.due_date) ELSE i3
        i5 == IF Truthy(o.assignee_id) THEN Put(i4, "assigneeId", o.assignee_id) ELSE i4
        i6 == IF Truthy(o.state_id) THEN Put(i5, "stateId", o.state_id) ELSE i5
        i7 == IF Truthy(o.project_id) THEN Put(i6, "projectId", o.project_id) ELSE i6
        i8 == IF Truthy(o.cycle_id) THEN Put(i7, "cycleId", o.cycle_id) ELSE i7
        i9 == IF Truthy(o.label_ids) THEN Put(i8, "labelIds", o.label_ids) ELSE i8
    IN  IF Truthy(o.parent_id) THEN Put(i9, "parentId", o.parent_id) ELSE i9

create_issue_mutation(ids) ==
    Request("create_issue", "mutation", "issueCreate",
            <<"mutation($input: IssueCreateInput!) { issueCreate(input: $input) { success issue { {ISSUE_FIELDS} } } }">>,
            [input |-> create_issue_input(args, ids[1])])

create_issue ==
    \/ /\ pc = "idle"
       /\ \E team_key \in {"eng"}, o \in Optionals(CreateIssueOptionals, MaxOpts) :
            StartResolve("create_issue", [title |-> "T", team_key |-> team_key, opts |-> o],
                         get_team_id_call(team_key))
    \/ /\ Awaiting("create_issue", "resolve")
       /\ \E r \in Responses(Last(calls)) :
            LET team_id == get_team_id(args.team_key, r)
            IN  Resolved(r, team_id, "act", create_issue_mutation(<<team_id.value>>))
    \/ /\ Awaiting("create_issue", "act")
       /\ \E r \in Responses(Last(calls)) : Finish(r, Created("Issue", "Failed to create issue", gql(r)))

UpdateIssueOptionals ==
    {"title", "description", "priority", "estimate", "due_date", "assignee_id", "state_id",
     "project_id", "cycle_id", "label_ids", "parent_id"}

\* update_issue as it would be if it sent an empty string as it is.
OrNull_keep(v) == v

\* "" clears the field: the key is sent with a null.
OrNull(v) == IF Truthy(v) THEN v ELSE NULL

update_issue_input(o) ==
    LET i0 == NoVariables
        i1 == IF o.title # NONE THEN Put(i0, "title", o.title) ELSE i0
        i2 == IF o.description # NONE THEN Put(i1, "description", o.description) ELSE i1
        i3 == IF o.priority # NONE THEN Put(i2, "priority", IssuePriority(o.priority)) ELSE i2
        i4 == IF o.estimate # NONE
              THEN Put(i3, "estimate", IF EstimateValue(o.estimate) >= 0 THEN o.estimate ELSE NULL)
              ELSE i3
        i5 == IF o.due_date # NONE THEN Put(i4, "dueDate", OrNull(o.due_date)) ELSE i4
        i6 == IF o.assignee_id # NONE THEN Put(i5, "assigneeId", OrNull(o.assignee_id)) ELSE i5
        i7 == IF o.state_id # NONE THEN Put(i6, "stateId", o.state_id) ELSE i6
        i8 == IF o.project_id # NONE THEN Put(i7, "projectId", OrNull(o.project_id)) ELSE i7
        i9 == IF o.cycle_id # NONE THEN Put(i8, "cycleId", OrNull(o.cycle_id)) ELSE i8
        i10 == IF o.label_ids # NONE THEN Put(i9, "labelIds", o.label_ids) ELSE i9
    IN  IF o.parent_id # NONE THEN Put(i10, "parentId", OrNull(o.parent_id)) ELSE i10

update_issue_mutation(issue_id, input_data) ==
    Request("update_issue", "mutation", "issueUpdate",
            <<"mutation($id: ID!, $input: IssueUpdateInput!) { issueUpdate(id: $id, input: $input) { success issue { {ISSUE_FIELDS} } } }">>,
            [id |-> issue_id, input |-> input_data])

NoFieldsToUpdate == Raise(Error("LinearAPIError", "No fields to update"))

\* update_issue resolves the identifier first and only then looks at the
\* fields: the empty-input check comes after the resolver's round trip.
update_issue ==
    \/ /\ pc = "idle"
       /\ \E identifier \in {"eng-1"}, o \in Optionals(UpdateIssueOptionals, MaxOpts) :
            StartResolve("update_issue", [identifier |-> identifier, opts |-> o],
                         get_issue_id_call(identifier))
    \/ /\ Awaiting("update_issue", "resolve")
       /\ \E r \in Responses(Last(calls)) :
            LET issue_id == get_issue_id(args.identifier, r)
                input_data == update_issue_input(args.opts)
            IN  /\ Receive(r)
                /\ IF issue_id.kind = "raise"
                   THEN Done(issue_id) /\ UNCHANGED resolved
                   ELSE /\ resolved' = <<issue_id.value>>
                        /\ IF DOMAIN input_data = {}
                           THEN Done(NoFieldsToUpdate)
                           ELSE Await(update_issue_mutation(issue_id.value, input_data), "act")
    \/ /\ Awaiting("update_issue", "act")
       /\ \E r \in Responses(Last(calls)) : Finish(r, Created("Issue", "Failed to update issue", gql(r)))

delete_issue_mutation(ids) ==
    Request("delete_issue", "mutation", "issueDelete",
            <<"mutation($id: ID!) { issueDelete(id: $id) { success } }">>, [id |-> ids[1]])

delete_issue ==
    \/ /\ pc = "idle"
       /\ \E identifier \in IdentifierArgs :
            StartResolve("delete_issue", [identifier |-> identifier], get_issue_id_call(identifier))
    \/ /\ Awaiting("delete_issue", "resolve")
       /\ \E r \in Responses(Last(calls)) :
            LET issue_id == get_issue_id(args.identifier, r)
            IN  Resolved(r, issue_id, "act", delete_issue_mutation(<<issue_id.value>>))
    \/ /\ Awaiting("delete_issue", "act")
       /\ \E r \in Responses(Last(calls)) : Finish(r, Deleted(gql(r)))

\* ---------------------------------------------------------------- project tools

list_projects_filtered(ids) ==
    Request("list_projects", "query", "projects",
            <<"query($first: Int!, $teamId: ID!) { projects(first: $first, filter: { accessibleTeams: { id: { eq: $teamId } } }) { nodes { id name description state url } } }">>,
            [first |-> args.limit, teamId |-> ids[1]])

list_projects ==
    \/ /\ pc = "idle"
       /\ \E team_key \in OptTeamKeyArgs, limit \in Limits :
            IF Truthy(team_key)
            THEN StartResolve("list_projects", [team_key |-> team_key, limit |-> limit],
                              get_team_id_call(team_key))
            ELSE Start("list_projects", [team_key |-> team_key, limit |-> limit],
                       Request("list_projects", "query", "projects",
                               <<"query($first: Int!) { projects(first: $first) { nodes { id name description state url } } }">>,
                               [first |-> limit]))
    \/ /\ Awaiting("list_projects", "resolve")
       /\ \E r \in Responses(Last(calls)) :
            LET team_id == get_team_id(args.team_key, r)
            IN  Resolved(r, team_id, "act", list_projects_filtered(<<team_id.value>>))
    \/ /\ Awaiting("list_projects", "act")
       /\ \E r \in Responses(Last(calls)) : Finish(r, ListOf("Project", gql(r)))

create_project_input(a, team_ids) ==
    LET i0 == [name |-> a.name, teamIds |-> team_ids]
    IN  IF Truthy(a.opts.description) THEN Put(i0, "description", a.opts.description) ELSE i0

create_project_mutation(a, team_ids) ==
    Request("create_project", "mutation", "projectCreate",
            <<"mutation($input: ProjectCreateInput!) { projectCreate(input: $input) { success project { id name description state url } } }">>,
            [input |-> create_project_input(a, team_ids)])

\* create_project_next as it would be if the loop stopped one key short.
create_project_next_short(ids) ==
    IF Len(ids) + 1 < Len(args.team_keys)
    THEN get_team_id_call(args.team_keys[Len(ids) + 1])
    ELSE create_project_mutation(args, ids)

\* team_ids = [await get_team_id(k) for k in team_keys]: one round trip per
\* key, in order, then the mutation.
create_project_next(ids) ==
    IF Len(ids) < Len(args.team_keys)
    THEN get_team_id_call(args.team_keys[Len(ids) + 1])
    ELSE create_project_mutation(args, ids)

create_project ==
    \/ /\ pc = "idle"
       /\ \E n \in 0..MaxTeamKeys, o \in Optionals({"description"}, MaxOpts) :
            LET team_keys == SubSeq(TeamKeyList, 1, n)
                a == [name |-> "P", team_keys |-> team_keys, opts |-> o]
            IN  IF team_keys # <<>>
                THEN StartResolve("create_project", a, get_team_id_call(team_keys[1]))
                ELSE Start("create_project", a, create_project_mutation(a, <<>>))
    \/ /\ Awaiting("create_project", "resolve")
       /\ \E r \in Responses(Last(calls)) :
            LET team_id == get_team_id(args.team_keys[Len(resolved) + 1], r)
                next == create_project_next(Append(resolved, team_id.value))
            IN  Resolved(r, team_id, IF next.kind = "mutation" THEN "act" ELSE "resolve", next)
    \/ /\ Awaiting("create_project", "act")
       /\ \E r \in Responses(Last(calls)) : Finish(r, Created("Project", "Failed to create project", gql(r)))

\* update_project as it would be if it sent every field, null when omitted.
update_project_input_with_nulls(o) ==
    [name |-> OrNull(o.name), description |-> OrNull(o.description), state |-> OrNull(o.state)]

update_project_input(o) ==
    LET i0 == NoVariables
        i1 == IF o.name # NONE THEN Put(i0, "name", o.name) ELSE i0
        i2 == IF o.description # NONE THEN Put(i1, "description", o.description) ELSE i1
    IN  IF o.state # NONE THEN Put(i2, "state", o.state) ELSE i2

update_project ==
    \/ /\ pc = "idle"
       /\ \E project_id \in IdArgs, o \in Optionals({"name", "description", "state"}, MaxOpts) :
            LET a == [project_id |-> project_id, opts |-> o]
                input_data == update_project_input(o)
            IN  IF DOMAIN input_data = {}
                THEN Reject("update_project", a, NoFieldsToUpdate)
                ELSE Start("update_project", a,
                           Request("update_project", "mutation", "projectUpdate",
                                   <<"mutation($id: ID!, $input: ProjectUpdateInput!) { projectUpdate(id: $id, input: $input) { success project { id name description state url } } }">>,
                                   [id |-> project_id, input |-> input_data]))
    \/ /\ Awaiting("update_project", "act")
       /\ \E r \in Responses(Last(calls)) : Finish(r, Created("Project", "Failed to update project", gql(r)))

\* ---------------------------------------------------------------- cycle tools

list_cycles_query(ids) ==
    Request("list_cycles", "query", "cycles",
            <<"query($teamId: ID!, $first: Int!) { cycles(first: $first, filter: { team: { id: { eq: $teamId } } }) { nodes { id name number startsAt endsAt } } }">>,
            [teamId |-> ids[1], first |-> args.limit])

list_cycles ==
    \/ /\ pc = "idle"
       /\ \E team_key \in TeamKeyArgs, limit \in Limits :
            StartResolve("list_cycles", [team_key |-> team_key, limit |-> limit], get_team_id_call(team_key))
    \/ /\ Awaiting("list_cycles", "resolve")
       /\ \E r \in Responses(Last(calls)) :
            LET team_id == get_team_id(args.team_key, r)
            IN  Resolved(r, team_id, "act", list_cycles_query(<<team_id.value>>))
    \/ /\ Awaiting("list_cycles", "act")
       /\ \E r \in Responses(Last(calls)) : Finish(r, ListOf("Cycle", gql(r)))

create_cycle_input(a, team_id) ==
    LET i0 == [teamId |-> team_id, startsAt |-> a.starts_at, endsAt |-> a.ends_at]
    IN  IF Truthy(a.opts.name) THEN Put(i0, "name", a.opts.name) ELSE i0

create_cycle_mutation(ids) ==
    Request("create_cycle", "mutation", "cycleCreate",
            <<"mutation($input: CycleCreateInput!) { cycleCreate(input: $input) { success cycle { id name number startsAt endsAt } } }">>,
            [input |-> create_cycle_input(args, ids[1])])

create_cycle ==
    \/ /\ pc = "idle"
       /\ \E team_key \in TeamKeyArgs, o \in Optionals({"name"}, MaxOpts) :
            StartResolve("create_cycle",
                         [team_key |-> team_key, starts_at |-> "2026-01-01", ends_at |-> "2026-01-14", opts |-> o],
                         get_team_id_call(team_key))
    \/ /\ Awaiting("create_cycle", "resolve")
       /\ \E r \in Responses(Last(calls)) :
            LET team_id == get_team_id(args.team_key, r)
            IN  Resolved(r, team_id, "act", create_cycle_mutation(<<team_id.value>>))
    \/ /\ Awaiting("create_cycle", "act")
       /\ \E r \in Responses(Last(calls)) : Finish(r, Created("Cycle", "Failed to create cycle", gql(r)))

\* ---------------------------------------------------------------- comment tools

list_comments_query(ids) ==
    Request("list_comments", "query", "issue",
            <<"query($id: ID!, $first: Int!) { issue(id: $id) { comments(first: $first) { nodes { id body createdAt user { id name } } } } }">>,
            [id |-> ids[1], first |-> args.limit])

list_comments ==
    \/ /\ pc = "idle"
       /\ \E identifier \in IdentifierArgs, limit \in Limits :
            StartResolve("list_comments", [identifier |-> identifier, limit |-> limit],
                         get_issue_id_call(identifier))
    \/ /\ Awaiting("list_comments", "resolve")
       /\ \E r \in Responses(Last(calls)) :
            LET issue_id == get_issue_id(args.identifier, r)
            IN  Resolved(r, issue_id, "act", list_comments_query(<<issue_id.value>>))
    \/ /\ Awaiting("list_comments", "act")
       /\ \E r \in Responses(Last(calls)) : Finish(r, ListOf("Comment", gql(r)))

create_comment_mutation(ids) ==
    Request("create_comment", "mutation", "commentCreate",
            <<"mutation($input: CommentCreateInput!) { commentCreate(input: $input) { success comment { id body createdAt user { id name } } } }">>,
            [input |-> [issueId |-> ids[1], body |-> args.body]])

create_comment ==
    \/ /\ pc = "idle"
       /\ \E identifier \in IdentifierArgs, body \in {"", "x"} :
            StartResolve("create_comment", [identifier |-> identifier, body |-> body],
                         get_issue_id_call(identifier))
    \/ /\ Awaiting("create_comment", "resolve")
       /\ \E r \in Responses(Last(calls)) :
            LET issue_id == get_issue_id(args.identifier, r)
            IN  Resolved(r, issue_id, "act", create_comment_mutation(<<issue_id.value>>))
    \/ /\ Awaiting("create_comment", "act")
       /\ \E r \in Responses(Last(calls)) : Finish(r, Created("Comment", "Failed to create comment", gql(r)))

update_comment ==
    \/ /\ pc = "idle"
       /\ \E comment_id \in IdArgs, body \in {"", "x"} :
            Start("update_comment", [comment_id |-> comment_id, body |-> body],
                  Request("update_comment", "mutation", "commentUpdate",
                          <<"mutation($id: ID!, $input: CommentUpdateInput!) { commentUpdate(id: $id, input: $input) { success comment { id body createdAt user { id name } } } }">>,
                          [id |-> comment_id, input |-> [body |-> body]]))
    \/ /\ Awaiting("update_comment", "act")
       /\ \E r \in Responses(Last(calls)) : Finish(r, Created("Comment", "Failed to update comment", gql(r)))

delete_comment ==
    \/ /\ pc = "idle"
       /\ \E comment_id \in IdArgs :
            Start("delete_comment", [comment_id |-> comment_id],
                  Request("delete_comment", "mutation", "commentDelete",
                          <<"mutation($id: ID!) { commentDelete(id: $id) { success } }">>, [id |-> comment_id]))
    \/ /\ Awaiting("delete_comment", "act")
       /\ \E r \in Responses(Last(calls)) : Finish(r, Deleted(gql(r)))

\* ---------------------------------------------------------------- label tools

list_labels_filtered(ids) ==
    Request("list_labels", "query", "issueLabels",
            <<"query($first: Int!, $teamId: ID!) { issueLabels(first: $first, filter: { team: { id: { eq: $teamId } } }) { nodes { id name color } } }">>,
            [first |-> args.limit, teamId |-> ids[1]])

list_labels ==
    \/ /\ pc = "idle"
       /\ \E team_key \in OptTeamKeyArgs, limit \in Limits :
            IF Truthy(team_key)
            THEN StartResolve("list_labels", [team_key |-> team_key, limit |-> limit],
                              get_team_id_call(team_key))
            ELSE Start("list_labels", [team_key |-> team_key, limit |-> limit],
                       Request("list_labels", "query", "issueLabels",
                               <<"query($first: Int!) { issueLabels(first: $first) { nodes { id name color } } }">>,
                               [first |-> limit]))
    \/ /\ Awaiting("list_labels", "resolve")
       /\ \E r \in Responses(Last(calls)) :
            LET team_id == get_team_id(args.team_key, r)
            IN  Resolved(r, team_id, "act", list_labels_filtered(<<team_id.value>>))
    \/ /\ Awaiting("list_labels", "act")
       /\ \E r \in Responses(Last(calls)) : Finish(r, ListOf("Label", gql(r)))

create_label_input(a, team_id) ==
    LET i0 == [name |-> a.name, teamId |-> team_id]
    IN  IF Truthy(a.opts.color) THEN Put(i0, "color", a.opts.color) ELSE i0

create_label_mutation(ids) ==
    Request("create_label", "mutation", "issueLabelCreate",
            <<"mutation($input: IssueLabelCreateInput!) { issueLabelCreate(input: $input) { success issueLabel { id name color } } }">>,
            [input |-> create_label_input(args, ids[1])])

create_label ==
    \/ /\ pc = "idle"
       /\ \E team_key \in TeamKeyArgs, o \in Optionals({"color"}, MaxOpts) :
            StartResolve("create_label", [name |-> "bug", team_key |-> team_key, opts |-> o],
                         get_team_id_call(team_key))
    \/ /\ Awaiting("create_label", "resolve")
       /\ \E r \in Responses(Last(calls)) :
            LET team_id == get_team_id(args.team_key, r)
            IN  Resolved(r, team_id, "act", create_label_mutation(<<team_id.value>>))
    \/ /\ Awaiting("create_label", "act")
       /\ \E r \in Responses(Last(calls)) : Finish(r, Created("Label", "Failed to create label", gql(r)))

delete_label ==
    \/ /\ pc = "idle"
       /\ \E label_id \in IdArgs :
            Start("delete_label", [label_id |-> label_id],
                  Request("delete_label", "mutation", "issueLabelDelete",
                          <<"mutation($id: ID!) { issueLabelDelete(id: $id) { success } }">>, [id |-> label_id]))
    \/ /\ Awaiting("delete_label", "act")
       /\ \E r \in Responses(Last(calls)) : Finish(r, Deleted(gql(r)))

\* ---------------------------------------------------------------- document tools

list_documents ==
    \/ /\ pc = "idle"
       /\ \E project_id \in {NONE, "", "id9"}, limit \in Limits :
            Start("list_documents", [project_id |-> project_id, limit |-> limit],
                  IF Truthy(project_id)
                  THEN Request("list_documents", "query", "documents",
                               <<"query($first: Int!, $projectId: ID!) { documents(first: $first, filter: { project: { id: { eq: $projectId } } }) { nodes { id title content url project { id } } } }">>,
                               [first |-> limit, projectId |-> project_id])
                  ELSE Request("list_documents", "query", "documents",
                               <<"query($first: Int!) { documents(first: $first) { nodes { id title content url project { id } } } }">>,
                               [first |-> limit]))
    \/ /\ Awaiting("list_documents", "act")
       /\ \E r \in Responses(Last(calls)) : Finish(r, ListOf("Document", gql(r)))

create_document_input(a) ==
    LET i0 == [title |-> a.title, projectId |-> a.project_id]
    IN  IF Truthy(a.opts.content) THEN Put(i0, "content", a.opts.content) ELSE i0

create_document ==
    \/ /\ pc = "idle"
       /\ \E project_id \in IdArgs, o \in Optionals({"content"}, MaxOpts) :
            LET a == [title |-> "D", project_id |-> project_id, opts |-> o]
            IN  Start("create_document", a,
                      Request("create_document", "mutation", "documentCreate",
                              <<"mutation($input: DocumentCreateInput!) { documentCreate(input: $input) { success document { id title content url project { id } } } }">>,
                              [input |-> create_document_input(a)]))
    \/ /\ Awaiting("create_document", "act")
       /\ \E r \in Responses(Last(calls)) : Finish(r, Created("Document", "Failed to create document", gql(r)))

update_document_input(o) ==
    LET i0 == NoVariables
        i1 == IF o.title # NONE THEN Put(i0, "title", o.title) ELSE i0
    IN  IF o.content # NONE THEN Put(i1, "content", o.content) ELSE i1

update_document ==
    \/ /\ pc = "idle"
       /\ \E document_id \in IdArgs, o \in Optionals({"title", "content"}, MaxOpts) :
            LET a == [document_id |-> document_id, opts |-> o]
                input_data == update_document_input(o)
            IN  IF DOMAIN input_data = {}
                THEN Reject("update_document", a, NoFieldsToUpdate)
                ELSE Start("update_document", a,
                           Request("update_document", "mutation", "documentUpdate",
                                   <<"mutation($id: ID!, $input: DocumentUpdateInput!) { documentUpdate(id: $id, input: $input) { success document { id title content url project { id } } } }">>,
                                   [id |-> document_id, input |-> input_data]))
    \/ /\ Awaiting("update_document", "act")
       /\ \E r \in Responses(Last(calls)) : Finish(r, Created("Document", "Failed to update document", gql(r)))

delete_document ==
    \/ /\ pc = "idle"
       /\ \E document_id \in IdArgs :
            Start("delete_document", [document_id |-> document_id],
                  Request("delete_document", "mutation", "documentDelete",
                          <<"mutation($id: ID!) { documentDelete(id: $id) { success } }">>, [id |-> document_id]))
    \/ /\ Awaiting("delete_document", "act")
       /\ \E r \in Responses(Last(calls)) : Finish(r, Deleted(gql(r)))

\* ---------------------------------------------------------------- webhook tools

list_webhooks ==
    \/ /\ pc = "idle"
       /\ \E limit \in Limits :
            Start("list_webhooks", [limit |-> limit],
                  Request("list_webhooks", "query", "webhooks",
                          <<"query($first: Int!) { webhooks(first: $first) { nodes { id label url enabled resourceTypes } } }">>,
                          [first |-> limit]))
    \/ /\ Awaiting("list_webhooks", "act")
       /\ \E r \in Responses(Last(calls)) : Finish(r, ListOf("Webhook", gql(r)))

\* input_data once the optional team id (team_ids is empty without a team_key)
\* and the optional label are in.
create_webhook_input(a, team_ids) ==
    LET i0 == [url |-> a.url, resourceTypes |-> a.resource_types]
        i1 == IF Truthy(a.team_key) THEN Put(i0, "teamId", team_ids[1]) ELSE i0
    IN  IF Truthy(a.label) THEN Put(i1, "label", a.label) ELSE i1

create_webhook_mutation(a, team_ids) ==
    Request("create_webhook", "mutation", "webhookCreate",
            <<"mutation($input: WebhookCreateInput!) { webhookCreate(input: $input) { success webhook { id label url enabled resourceTypes } } }">>,
            [input |-> create_webhook_input(a, team_ids)])

create_webhook_resolved(ids) == create_webhook_mutation(args, ids)

create_webhook ==
    \/ /\ pc = "idle"
       /\ \E team_key \in OptTeamKeyArgs, label \in {NONE, "", "x"} :
            LET a == [url |-> "https://h", resource_types |-> "[Issue]", team_key |-> team_key, label |-> label]
            IN  IF Truthy(team_key)
                THEN StartResolve("create_webhook", a, get_team_id_call(team_key))
                ELSE Start("create_webhook", a, create_webhook_mutation(a, <<>>))
    \/ /\ Awaiting("create_webhook", "resolve")
       /\ \E r \in Responses(Last(calls)) :
            LET team_id == get_team_id(args.team_key, r)
            IN  Resolved(r, team_id, "act", create_webhook_resolved(<<team_id.value>>))
    \/ /\ Awaiting("create_webhook", "act")
       /\ \E r \in Responses(Last(calls)) : Finish(r, Created("Webhook", "Failed to create webhook", gql(r)))

delete_webhook ==
    \/ /\ pc = "idle"
       /\ \E webhook_id \in IdArgs :
            Start("delete_webhook", [webhook_id |-> webhook_id],
                  Request("delete_webhook", "mutation", "webhookDelete",
                          <<"mutation($id: ID!) { webhookDelete(id: $id) { success } }">>, [id |-> webhook_id]))
    \/ /\ Awaiting("delete_webhook", "act")
       /\ \E r \in Responses(Last(calls)) : Finish(r, Deleted(gql(r)))

\* ---------------------------------------------------------------- the tools of main.py

\* main.py's tools build their query text with f-strings: the caller's
\* strings are part of the text, and no variable is bound.

main_get_me ==
    \/ /\ pc = "idle"
       /\ Start("main_get_me", <<>>,
                Request("main.get_me", "query", "viewer", <<"query { viewer { id name email } }">>, NoVariables))
    \/ /\ Awaiting("main_get_me", "act")
       /\ \E r \in Responses(Last(calls)) :
            LET data == graphql_request(r)
            IN  Finish(r, IF data.kind = "raise" THEN data
                          ELSE IF data.value.kind = NULL \/ data.value.payload = NULL THEN AttributeError
                          ELSE IF data.value.payload = ABSENT \/ data.value.entity = ABSENT
                          THEN Return(Record("User", ""))
                          ELSE Return(Record("User", data.value.entity)))

main_list_teams ==
    \/ /\ pc = "idle"
       /\ Start("main_list_teams", <<>>,
                Request("main.list_teams", "query", "teams", <<"query { teams { nodes { id name key } } }">>, NoVariables))
    \/ /\ Awaiting("main_list_teams", "act")
       /\ \E r \in Responses(Last(calls)) : Finish(r, ListOf("Team", graphql_request(r)))

IssueState(state) ==
    CASE state = "backlog" -> "Backlog"
      [] state = "todo" -> "Todo"
      [] state = "in_progress" -> "In Progress"
      [] state = "done" -> "Done"
      [] state = "canceled" -> "Canceled"

main_list_issues_query(team_key, state, limit) ==
    LET filters ==
            (IF Truthy(team_key) THEN <<"team: { key: { eq: \"", team_key, "\" } }">> ELSE <<>>)
            \o (IF state # NONE THEN <<"state: { name: { eq: \"", IssueState(state), "\" } }">> ELSE <<>>)
        filter_clause == IF filters # <<>> THEN <<"filter: {">> \o filters \o <<"}">> ELSE <<>>
    IN  Request("main.list_issues", "query", "issues",
                <<"query { issues(first: ", str(limit), ", ">> \o filter_clause \o <<") { nodes { ... } } }">>,
                NoVariables)

main_list_issues ==
    \/ /\ pc = "idle"
       /\ \E team_key \in OptTeamKeyArgs, state \in {NONE, "todo"}, limit \in Limits :
            Start("main_list_issues", [team_key |-> team_key, state |-> state, limit |-> limit],
                  main_list_issues_query(team_key, state, limit))
    \/ /\ Awaiting("main_list_issues", "act")
       /\ \E r \in Responses(Last(calls)) : Finish(r, ListOf("Issue", graphql_request(r)))

main_get_issue_return(data) ==
    IF data.kind = "raise" THEN data
    ELSE IF data.value.kind = NULL THEN AttributeError
    ELSE LET issues == Nodes(data.value)
         IN  IF issues = <<>> THEN Return(None) ELSE Return(Record("Issue", issues[1]))

main_get_issue ==
    \/ /\ pc = "idle"
       /\ \E identifier \in IdentifierArgs :
            Start("main_get_issue", [identifier |-> identifier],
                  Request("main.get_issue", "query", "issues",
                          <<"query { issues(filter: { identifier: { eq: \"", identifier, "\" } }, first: 1) { nodes { ... } } }">>,
                          NoVariables))
    \/ /\ Awaiting("main_get_issue", "act")
       /\ \E r \in Responses(Last(calls)) : Finish(r, main_get_issue_return(graphql_request(r)))

main_team_query(by, team_key) ==
    Request(by, "query", "teams",
            <<"query { teams(filter: { key: { eq: \"", team_key, "\" } }) { nodes { id } } }">>, NoVariables)

\* The team lookup main.create_issue does inline.
main_create_issue_team(team_key, response) ==
    LET team_data == graphql_request(response)
    IN  IF team_data.kind = "raise" THEN team_data
        ELSE IF team_data.value.kind = NULL THEN AttributeError
        ELSE LET teams == Nodes(team_data.value)
             IN  IF teams = <<>>
                 THEN Raise([Error("ValueError", "Team with key '{team_key}' not found") EXCEPT !.name = team_key])
                 ELSE Return(teams[1])

main_create_issue_mutation(ids) ==
    Request("main.create_issue", "mutation", "issueCreate",
            <<"mutation($input: IssueCreateInput!) { issueCreate(input: $input) { success issue { ... } } }">>,
            [input |-> [title |-> args.title, teamId |-> ids[1], description |-> args.description,
                        priority |-> IssuePriority(args.priority)]])

main_create_issue_return(data) ==
    IF data.kind = "raise" THEN data
    ELSE IF data.value.kind = NULL \/ data.value.payload = NULL THEN AttributeError
    ELSE IF data.value.payload = ABSENT \/ data.value.success # "true"
    THEN Raise(Error("Exception", "Failed to create issue"))
    ELSE IF data.value.entity = ABSENT THEN KeyError
    ELSE Return(Record("Issue", data.value.entity))

main_create_issue ==
    \/ /\ pc = "idle"
       /\ \E team_key \in TeamKeyArgs, description \in {NONE, "x"}, priority \in {"NO_PRIORITY", "HIGH"} :
            StartResolve("main_create_issue",
                         [title |-> "T", team_key |-> team_key, description |-> description, priority |-> priority],
                         main_team_query("main.create_issue", team_key))
    \/ /\ Awaiting("main_create_issue", "resolve")
       /\ \E r \in Responses(Last(calls)) :
            LET team_id == main_create_issue_team(args.team_key, r)
            IN  Resolved(r, team_id, "act", main_create_issue_mutation(<<team_id.value>>))
    \/ /\ Awaiting("main_create_issue", "act")
       /\ \E r \in Responses(Last(calls)) : Finish(r, main_create_issue_return(graphql_request(r)))

main_search_issues ==
    \/ /\ pc = "idle"
       /\ \E query \in {"", "x"}, limit \in Limits :
            Start("main_search_issues", [query |-> query, limit |-> limit],
                  Request("main.search_issues", "query", "issueSearch",
                          <<"query($query: String!, $first: Int!) { issueSearch(query: $query, first: $first) { nodes { ... } } }">>,
                          [query |-> query, first |-> limit]))
    \/ /\ Awaiting("main_search_issues", "act")
       /\ \E r \in Responses(Last(calls)) : Finish(r, ListOf("Issue", graphql_request(r)))

main_list_projects_query(filter_clause) ==
    Request("main.list_projects", "query", "projects",
            <<"query { projects(">> \o filter_clause \o <<") { nodes { id name state } } }">>, NoVariables)

\* main.list_projects keeps filter_clause empty when the team lookup finds no
\* team, and lists every project.
main_list_projects ==
    \/ /\ pc = "idle"
       /\ \E team_key \in OptTeamKeyArgs :
            IF Truthy(team_key)
            THEN StartResolve("main_list_projects", [team_key |-> team_key],
                              main_team_query("main.list_projects", team_key))
            ELSE Start("main_list_projects", [team_key |-> team_key], main_list_projects_query(<<>>))
    \/ /\ Awaiting("main_list_projects", "resolve")
       /\ \E r \in Responses(Last(calls)) :
            LET team_data == graphql_request(r)
            IN  /\ Receive(r)
                /\ IF team_data.kind = "raise"
                   THEN Done(team_data) /\ UNCHANGED resolved
                   ELSE IF team_data.value.kind = NULL
                   THEN Done(AttributeError) /\ UNCHANGED resolved
                   ELSE LET teams == Nodes(team_data.value)
                        IN  IF teams # <<>>
                            THEN /\ resolved' = <<teams[1]>>
                                 /\ Await(main_list_projects_query(
                                        <<"filter: { accessibleTeams: { id: { eq: \"", teams[1], "\" } } }">>), "act")
                            ELSE /\ UNCHANGED resolved
                                 /\ Await(main_list_projects_query(<<>>), "act")
    \/ /\ Awaiting("main_list_projects", "act")
       /\ \E r \in Responses(Last(calls)) : Finish(r, ListOf("Project", graphql_request(r)))

\* ---------------------------------------------------------------- specification

Next ==
    \/ get_me
    \/ list_users
    \/ list_teams
    \/ list_workflow_states
    \/ list_issues
    \/ get_issue
    \/ search_issues
    \/ create_issue
    \/ update_issue
    \/ delete_issue
    \/ list_projects
    \/ create_project
    \/ update_project
    \/ list_cycles
    \/ create_cycle
    \/ list_comments
    \/ create_comment
    \/ update_comment
    \/ delete_comment
    \/ list_labels
    \/ create_label
    \/ delete_label
    \/ list_documents
    \/ create_document
    \/ update_document
    \/ delete_document
    \/ list_webhooks
    \/ create_webhook
    \/ delete_webhook
    \/ main_get_me
    \/ main_list_teams
    \/ main_list_issues
    \/ main_get_issue
    \/ main_create_issue
    \/ main_search_issues
    \/ main_list_projects
    \/ Reset

Spec == Init /\ [][Next]_vars

\* ---------------------------------------------------------------- response parser

\* A relationship of a node as the remote sends it: the key is absent, is null,
\* or holds a mapping (whose id and name may themselves be missing: cycle and
\* parent are asked for their id alone, and {} is a mapping with neither).
Rel(kind, id, name) == [kind |-> kind, id |-> id, name |-> name]
NamedRels == {Rel(ABSENT, ABSENT, ABSENT), Rel(NULL, ABSENT, ABSENT), Rel("map", ABSENT, ABSENT),
              Rel("map", "r1", "Name")}
IdRels == {Rel(ABSENT, ABSENT, ABSENT), Rel(NULL, ABSENT, ABSENT), Rel("map", "r2", ABSENT)}

\* The labels connection: absent, null, or a mapping whose `nodes` is absent,
\* null or a list of label nodes.
LabelNodes == {[id |-> "L1", name |-> "bug"], [id |-> "L2", name |-> "ui"]}
Labels(kind, list, nodes) == [kind |-> kind, list |-> list, nodes |-> nodes]
LabelValues ==
    {Labels(ABSENT, ABSENT, <<>>), Labels(NULL, ABSENT, <<>>), Labels("map", ABSENT, <<>>),
     Labels("map", NULL, <<>>)}
    \cup {Labels("map", "list", n) : n \in SeqsUpTo(LabelNodes, MaxNodes)}

\* A JSON number field: absent, null or an int.
Number(kind, n) == [kind |-> kind, n |-> n]
RemotePriorities == {Number(ABSENT, 0), Number(NULL, 0)} \cup {Number("int", n) : n \in {0, 4, 5}}

\* The issue nodes and the comment nodes the remote answers with.
IssueNodes ==
    [id : {"id1"}, identifier : {"ENG-1"}, title : {"T"}, state : NamedRels, assignee : NamedRels,
     project : NamedRels, cycle : IdRels, parent : IdRels, labels : LabelValues,
     priority : RemotePriorities]
CommentNodes == [id : {"c1"}, body : {"hello"}, user : NamedRels \cup IdRels]

TypeError == Raise(Error("TypeError", "'NoneType' object is not iterable"))

\* The parser as it would be if it read the sub-object without looking at it.
Flat_unchecked(rel, k) == rel[k]

\* i.get(rel, {}).get(k) if i.get(rel) else None: None unless the relationship
\* is a mapping that is not empty; dict.get gives None for a missing key, and a
\* JSON null is None.
Flat(rel, k) ==
    IF rel.kind = "map" /\ (rel.id # ABSENT \/ rel.name # ABSENT) /\ rel[k] \notin {ABSENT, NULL}
    THEN rel[k]
    ELSE NONE

\* i.get("priority")
get_priority(p) == IF p.kind = "int" THEN p ELSE Number("None", 0)

\* i.get("labels", {}).get("nodes", [])
label_nodes(labels) ==
    IF labels.kind = ABSENT \/ labels.list = ABSENT THEN <<>> ELSE labels.nodes

\* The label ids as they would be if they were collected in another order.
label_ids_reversed(nodes) == [k \in 1..Len(nodes) |-> nodes[Len(nodes) + 1 - k].id]

\* [label["name"] for label in ...] and [label["id"] for label in ...]
label_names(nodes) == [k \in 1..Len(nodes) |-> nodes[k].name]
label_ids(nodes) == [k \in 1..Len(nodes) |-> nodes[k].id]

\* The pydantic model: id, identifier and title are str, every relationship
\* field is str | None, and priority is int | None, which admits every int.
Issue(fields) == Return(fields)

\* parse_issue on a node (the fields that are copied with a plain i.get, like
\* description or url, are left out). A null `labels` has no .get, and a null
\* `nodes` cannot be iterated.
parse_issue(i) ==
    IF i.labels.kind = NULL THEN AttributeError
    ELSE IF i.labels.kind = "map" /\ i.labels.list = NULL THEN TypeError
    ELSE Issue([type |-> "Issue", id |-> i.id, identifier |-> i.identifier, title |-> i.title,
                state |-> Flat(i.state, "name"), state_id |-> Flat(i.state, "id"),
                priority |-> get_priority(i.priority),
                assignee |-> Flat(i.assignee, "name"), assignee_id |-> Flat(i.assignee, "id"),
                project |-> Flat(i.project, "name"), project_id |-> Flat(i.project, "id"),
                cycle_id |-> Flat(i.cycle, "id"),
                labels |-> label_names(label_nodes(i.labels)),
                label_ids |-> label_ids(label_nodes(i.labels)),
                parent_id |-> Flat(i.parent, "id")])

\* The Comment list_comments builds from a comment node.
Comment(c) ==
    Return([type |-> "Comment", id |-> c.id, body |-> c.body,
            user |-> Flat(c.user, "name"), user_id |-> Flat(c.user, "id")])

\* The parser on its own: a node of the remote is handed to it, and it returns
\* a record or raises.
ParseInit ==
    /\ \/ op = "parse_issue" /\ args \in IssueNodes
       \/ op = "parse_comment" /\ args \in CommentNodes
    /\ pc = "idle"
    /\ calls = <<>>
    /\ resps = <<>>
    /\ resolved = <<>>
    /\ outcome = NoOutcome
    /\ suspended = <<>>

ParseIssue ==
    /\ pc = "idle"
    /\ op = "parse_issue"
    /\ Done(parse_issue(args))
    /\ UNCHANGED <<op, args, resps, resolved, suspended>>

ParseComment ==
    /\ pc = "idle"
    /\ op = "parse_comment"
    /\ Done(Comment(args))
    /\ UNCHANGED <<op, args, resps, resolved, suspended>>

ParseNext == ParseIssue \/ ParseComment

ParseSpec == ParseInit /\ [][ParseNext]_vars

\* ---------------------------------------------------------------- concurrent invocations

\* The host runs the tools as coroutines on one event loop: several invocations
\* may be in flight, one runs at a time, and the loop passes to another one only
\* while the running one waits at an await. What an invocation holds is its
\* locals; the modules have no variable that a tool assigns.

\* The locals of the running invocation.
Frame ==
    [op |-> op, args |-> args, pc |-> pc, calls |-> calls, resps |-> resps,
     resolved |-> resolved, outcome |-> outcome]

IdleFrame ==
    [op |-> "", args |-> <<>>, pc |-> "idle", calls |-> <<>>, resps |-> <<>>,
     resolved |-> <<>>, outcome |-> NoOutcome]

ConcInit ==
    /\ op = ""
    /\ args = <<>>
    /\ pc = "idle"
    /\ calls = <<>>
    /\ resps = <<>>
    /\ resolved = <<>>
    /\ outcome = NoOutcome
    /\ suspended = [k \in 1..(MaxInvocations - 1) |-> IdleFrame]

\* The loop as it would be if the resolved ids were kept in a list of the
\* module, which every invocation appends to, and not in a local.
Yield_shared_ids ==
    \E k \in 1..Len(suspended) :
        /\ op' = suspended[k].op
        /\ args' = suspended[k].args
        /\ pc' = suspended[k].pc
        /\ calls' = suspended[k].calls
        /\ resps' = suspended[k].resps
        /\ outcome' = suspended[k].outcome
        /\ suspended' = [suspended EXCEPT ![k] = Frame]
        /\ UNCHANGED resolved

\* The running invocation waits and the loop resumes another one.
Yield ==
    \E k \in 1..Len(suspended) :
        /\ op' = suspended[k].op
        /\ args' = suspended[k].args
        /\ pc' = suspended[k].pc
        /\ calls' = suspended[k].calls
        /\ resps' = suspended[k].resps
        /\ resolved' = suspended[k].resolved
        /\ outcome' = suspended[k].outcome
        /\ suspended' = [suspended EXCEPT ![k] = Frame]

\* The answers and the arguments the concurrent runs are explored with: a
\* transport failure or a clean 200 with at most one node, one identifier, and
\* update_issue with nothing or with due_date="".
ConcAnswer(r) ==
    \/ ~r.success
    \/ /\ r.status = 200
       /\ r.body.shape = "dict"
       /\ r.body.errors = ABSENT
       /\ r.body.data.kind = "map"
       /\ Len(r.body.data.nodes) <= 1
       /\ r.body.data.success \in {ABSENT, "true"}

ConcInputs ==
    /\ op \in {"get_issue", "delete_issue"} => args.identifier = "eng-1"
    /\ op = "update_issue" =>
          \A f \in UpdateIssueOptionals : args.opts[f] = NONE \/ (f = "due_date" /\ args.opts[f] = "")
    /\ resps # <<>> => ConcAnswer(Last(resps))

ConcGetIssue == get_issue /\ ConcInputs'
ConcDeleteIssue == delete_issue /\ ConcInputs'
ConcUpdateIssue == update_issue /\ ConcInputs'

ConcNext ==
    \/ ConcGetIssue
    \/ ConcDeleteIssue
    \/ ConcUpdateIssue
    \/ Reset
    \/ Yield

ConcSpec == ConcInit /\ [][ConcNext]_vars

\* ---------------------------------------------------------------- properties

Finished == pc = "done" /\ Len(resps) = Len(calls)

\* The optional arguments of the invocation are all omitted.
NothingSupplied == \A f \in DOMAIN args.opts : args.opts[f] = NONE

InvalidArgument(out) == out.kind = "raise" /\ out.error.text = "No fields to update"

NotFound(out) ==
    /\ out.kind = "raise"
    /\ out.error.text \in {"Team '{team_key}' not found", "Issue '{identifier}' not found",
                           "Team with key '{team_key}' not found"}

\* The transport succeeded, the status is below 400 and the body has no `errors`.
CleanResponse(r) ==
    /\ r.success
    /\ r.status < 400
    /\ ~(r.body.shape = "dict" /\ r.body.errors # ABSENT)

\* The data mapping the remote sent ({} when the body has none).
RemoteData(r) ==
    IF r.body.shape = "dict" /\ r.body.data.kind # ABSENT THEN r.body.data ELSE EmptyData

\* A request that looks an id up: a team by key or an issue by identifier.
IsLookup(req) ==
    /\ req.root \in {"teams", "issues"}
    /\ req.by \in {"get_team_id", "get_issue_id", "main.create_issue", "main.list_projects"}

\* A clean answer that carries no node.
ZeroMatch(r) ==
    /\ CleanResponse(r)
    /\ RemoteData(r).kind = "map"
    /\ Nodes(RemoteData(r)) = <<>>

ResolvingWrites ==
    {"create_issue", "update_issue", "delete_issue", "create_project", "create_cycle",
     "create_comment", "create_label", "create_webhook", "main_create_issue"}

\* The number of keys and identifiers the invocation has to resolve.
Resolutions ==
    IF op \in {"list_workflow_states", "create_issue", "update_issue", "delete_issue", "list_cycles",
               "create_cycle", "list_comments", "create_comment", "create_label", "main_create_issue"}
    THEN 1
    ELSE IF op \in {"list_projects", "list_labels", "create_webhook", "main_list_projects"}
    THEN (IF Truthy(args.team_key) THEN 1 ELSE 0)
    ELSE IF op = "create_project" THEN Len(args.team_keys)
    ELSE 0

\* C1: update_issue with every optional argument omitted fails with the
\* invalid-argument error and the dispatch channel is never invoked.
C1_UpdateIssueNoFieldsNoDispatch ==
    (op = "update_issue" /\ NothingSupplied) =>
        /\ calls = <<>>
        /\ pc = "done" => InvalidArgument(outcome)

\* C2: in an operation that resolves before writing, a lookup matching zero
\* records ends the invocation with the not-found error and no mutation request
\* is dispatched in it, whichever lookup (whichever team key) it is.
C2_NotFoundBeforeMutation ==
    \A i \in 1..Len(resps) :
        (op \in ResolvingWrites /\ IsLookup(calls[i]) /\ ZeroMatch(resps[i])) =>
            /\ pc = "done"
            /\ i = Len(calls)
            /\ NotFound(outcome)
            /\ \A j \in 1..Len(calls) : calls[j].kind # "mutation"

C2_Witness ==
    /\ op = "create_project"
    /\ pc = "done"
    /\ Len(resps) = 2
    /\ ~ZeroMatch(resps[1])
    /\ ZeroMatch(resps[2])
    /\ NotFound(outcome)

\* C3 as stated: a successful invocation makes one round trip without id
\* resolution and two with it, and no invocation makes three or more.
C3_AtMostTwoRoundTrips ==
    /\ Len(calls) <= 2
    /\ (pc = "done" /\ outcome.kind = "return") =>
           Len(calls) = (IF Resolutions > 0 THEN 2 ELSE 1)

\* C3 amended: a successful invocation makes one round trip per key or
\* identifier it resolves and then one more, the lookups first; no invocation
\* makes more, and only create_project resolves more than one key.
C3_OneRoundTripPerResolution ==
    /\ Len(calls) <= 1 + Resolutions
    /\ op # "create_project" => Resolutions <= 1
    /\ \A i \in 1..Len(calls) : IsLookup(calls[i]) <=> i <= Resolutions
    /\ (pc = "done" /\ outcome.kind = "return") => Len(calls) = 1 + Resolutions

C3_Witness ==
    /\ op = "create_project"
    /\ Len(args.team_keys) = 2
    /\ pc = "done"
    /\ outcome.kind = "return"
    /\ Len(calls) = 3

\* C4: a transport success with a status of 400 or more makes the operation
\* raise an error that carries that status and the body.
C4_RemoteErrorCarriesStatus ==
    (Finished /\ calls # <<>> /\ Last(resps).success /\ Last(resps).status >= 400) =>
        /\ outcome.kind = "raise"
        /\ outcome.error.status = Last(resps).status
        /\ outcome.error.body = Last(resps).body

\* C5: a transport success below 400 whose body has an `errors` key makes the
\* operation raise the GraphQL error carrying that error list, and the `data`
\* of the body is not returned, whether or not it is there.
C5_GraphQLErrorsRaise ==
    (Finished /\ calls # <<>> /\ Last(resps).success /\ Last(resps).status < 400
        /\ Last(resps).body.shape = "dict" /\ Last(resps).body.errors # ABSENT) =>
        /\ outcome.kind = "raise"
        /\ outcome.error.text = "GraphQL error: {errors}"
        /\ outcome.error.errors = Last(resps).body.errors

C5_Witness ==
    /\ Finished
    /\ op = "get_issue"
    /\ Last(resps).success
    /\ Last(resps).status < 400
    /\ Last(resps).body.shape = "dict"
    /\ Last(resps).body.errors = "[E1]"
    /\ Last(resps).body.data.kind = "map"
    /\ outcome.kind = "raise"

\* C6: a transport failure makes the operation raise an error that carries
\* both the code and the message of the channel's failure.
C6_TransportErrorCarriesCodeAndMessage ==
    (Finished /\ calls # <<>> /\ ~Last(resps).success) =>
        /\ outcome.kind = "raise"
        /\ outcome.error.code = Last(resps).code
        /\ outcome.error.message = Last(resps).message

\* A dispatch call that ended in a failure: a transport failure, a status of
\* 400 or more, GraphQL errors, or a lookup that found nothing.
Failed(req, r) ==
    \/ ~CleanResponse(r)
    \/ IsLookup(req) /\ ZeroMatch(r)

\* C7: once a dispatch call of an invocation has failed, the invocation makes
\* no further dispatch call and ends by raising.
C7_NoCallAfterFailure ==
    \A i \in 1..Len(resps) :
        Failed(calls[i], resps[i]) =>
            /\ i = Len(calls)
            /\ pc = "done"
            /\ outcome.kind = "raise"

\* C8: get_issue returns None, and does not raise, when the issues lookup
\* answers with no node.
C8_GetIssueNoMatchIsNone ==
    (Finished /\ op \in {"get_issue", "main_get_issue"} /\ ZeroMatch(Last(resps))) =>
        outcome = Return(None)

C8_Witness ==
    /\ Finished
    /\ op = "get_issue"
    /\ ZeroMatch(Last(resps))
    /\ Last(resps).body.shape = "dict"
    /\ Last(resps).body.data.kind = "map"
    /\ Last(resps).body.data.root = "map"
    /\ outcome = Return(None)

CreateUpdateOps ==
    {"create_issue", "update_issue", "create_project", "update_project", "create_cycle",
     "create_comment", "update_comment", "create_label", "create_document", "update_document",
     "create_webhook", "main_create_issue"}

OperationFailedText ==
    CASE op \in {"create_issue", "main_create_issue"} -> "Failed to create issue"
      [] op = "update_issue" -> "Failed to update issue"
      [] op = "create_project" -> "Failed to create project"
      [] op = "update_project" -> "Failed to update project"
      [] op = "create_cycle" -> "Failed to create cycle"
      [] op = "create_comment" -> "Failed to create comment"
      [] op = "update_comment" -> "Failed to update comment"
      [] op = "create_label" -> "Failed to create label"
      [] op = "create_document" -> "Failed to create document"
      [] op = "update_document" -> "Failed to update document"
      [] op = "create_webhook" -> "Failed to create webhook"

\* The mutation of the invocation has been answered cleanly.
MutationAnswered ==
    /\ Finished
    /\ calls # <<>>
    /\ Last(calls).kind = "mutation"
    /\ CleanResponse(Last(resps))

\* The payload of the mutation is a mapping, or is missing.
PayloadIsMapping(d) == d.kind = "map" /\ d.payload # NULL

\* C9: a create or update mutation answered cleanly with a payload whose
\* success flag is false or missing raises the operation-failed error of the
\* operation; without a true flag no record is returned.
C9_UnsuccessfulMutationRaises ==
    (MutationAnswered /\ op \in CreateUpdateOps) =>
        LET d == RemoteData(Last(resps))
        IN  /\ (PayloadIsMapping(d) /\ d.success \in {ABSENT, "false"}) =>
                  /\ outcome.kind = "raise"
                  /\ outcome.error.text = OperationFailedText
            /\ (~PayloadIsMapping(d) \/ d.success # "true") => outcome.kind = "raise"

C9_Witness ==
    /\ MutationAnswered
    /\ op = "create_webhook"
    /\ PayloadIsMapping(RemoteData(Last(resps)))
    /\ RemoteData(Last(resps)).payload = "map"
    /\ RemoteData(Last(resps)).success = ABSENT
    /\ RemoteData(Last(resps)).entity = "id1"
    /\ outcome.kind = "raise"
    /\ outcome.error.text = "Failed to create webhook"

DeleteOps == {"delete_issue", "delete_comment", "delete_label", "delete_document", "delete_webhook"}

\* C10: a delete whose mutation is answered cleanly returns the success flag of
\* the payload as the remote sent it, false when the flag is not there, and
\* does not raise when the flag is false.
C10_DeleteReturnsRemoteFlag ==
    (MutationAnswered /\ op \in DeleteOps /\ PayloadIsMapping(RemoteData(Last(resps)))) =>
        LET d == RemoteData(Last(resps))
        IN  outcome = Return(Bool(IF d.payload = ABSENT \/ d.success = ABSENT THEN "false" ELSE d.success))

C10_Witness ==
    /\ MutationAnswered
    /\ op = "delete_issue"
    /\ PayloadIsMapping(RemoteData(Last(resps)))
    /\ RemoteData(Last(resps)).payload = "map"
    /\ RemoteData(Last(resps)).success = "false"
    /\ outcome = Return(Bool("false"))

\* ---------------------------------------------------------------- requests

\* No filter argument was given to the listing of issues.
NoFilterGiven ==
    \/ op = "list_issues" /\ \A f \in ListIssuesFilters : args.filters[f] = NONE
    \/ op = "main_list_issues" /\ args.team_key = NONE /\ args.state = NONE

\* The pieces of text a filter clause is made of.
FilterClauseText ==
    {"filter: {", "}", "team: { key: { eq: $teamKey } }", "assignee: { id: { eq: $assigneeId } }",
     "state: { id: { eq: $stateId } }", "project: { id: { eq: $projectId } }",
     "cycle: { id: { eq: $cycleId } }", "team: { key: { eq: \"", "state: { name: { eq: \"",
     "\" } }"}

TextOf(req) == {req.text[k] : k \in DOMAIN req.text}

\* C11: list_issues called with every filter argument omitted dispatches a
\* query with no filter clause in its text and binds no variable but the page
\* size.
C11_NoFilterMeansUnfiltered ==
    (NoFilterGiven /\ calls # <<>>) =>
        /\ TextOf(calls[1]) \cap FilterClauseText = {}
        /\ DOMAIN calls[1].variables \subseteq {"first"}
        /\ op = "list_issues" => calls[1].variables = [first |-> args.limit]

C11_Witness ==
    /\ NoFilterGiven
    /\ op = "list_issues"
    /\ Finished
    /\ outcome.kind = "return"
    /\ outcome.value.items # <<>>

\* The key of the mutation input an argument is sent under.
InputKey(f) ==
    CASE f = "due_date" -> "dueDate"
      [] f = "assignee_id" -> "assigneeId"
      [] f = "state_id" -> "stateId"
      [] f = "project_id" -> "projectId"
      [] f = "cycle_id" -> "cycleId"
      [] f = "label_ids" -> "labelIds"
      [] f = "parent_id" -> "parentId"
      [] OTHER -> f

\* The optional arguments the caller supplied, whatever their values.
Supplied == {f \in DOMAIN args.opts : args.opts[f] # NONE}

\* The invocation has dispatched its mutation after one resolve step.
MutationDispatched(o) ==
    /\ op = o
    /\ Len(calls) = 2
    /\ calls[2].kind = "mutation"

\* C12: the input of create_issue's mutation has teamId equal to the id the
\* resolve step returned, and its keys are title, teamId and one key for each
\* optional argument the caller supplied, whatever its value, and no other.
C12_CreateIssueInputIsWhatWasSupplied ==
    /\ MutationDispatched("create_issue") =>
          /\ calls[2].variables.input.teamId = RemoteData(resps[1]).nodes[1]
          /\ DOMAIN calls[2].variables.input = {"title", "teamId"} \cup {InputKey(f) : f \in Supplied}
    /\ MutationDispatched("main_create_issue") =>
          /\ calls[2].variables.input.teamId = RemoteData(resps[1]).nodes[1]
          /\ {"title", "teamId"} \subseteq DOMAIN calls[2].variables.input
          /\ args.description = NONE => "description" \notin DOMAIN calls[2].variables.input

\* The arguments of update_issue that an empty string clears.
ClearableFields == {"due_date", "assignee_id", "project_id", "cycle_id", "parent_id"}

\* C13: in the input of update_issue's mutation, each of due_date, assignee_id,
\* project_id, cycle_id and parent_id is absent when the argument was omitted,
\* null when it was given as the empty string, and the given value otherwise.
C13_OmitIsNotClear ==
    MutationDispatched("update_issue") =>
        LET input == calls[2].variables.input
        IN  \A f \in ClearableFields :
                /\ args.opts[f] = NONE => InputKey(f) \notin DOMAIN input
                /\ args.opts[f] = "" => InputKey(f) \in DOMAIN input /\ input[InputKey(f)] = NULL
                /\ args.opts[f] \notin {NONE, ""} =>
                      InputKey(f) \in DOMAIN input /\ input[InputKey(f)] = args.opts[f]

C13_Witness ==
    /\ MutationDispatched("update_issue")
    /\ args.opts.due_date = ""
    /\ calls[2].variables.input = [dueDate |-> NULL]
    /\ Finished
    /\ outcome.kind = "return"

\* The strings a caller passes as arguments, as given and upper-cased.
CallerStrings ==
    LET given == TeamKeyArgs \cup IdentifierArgs \cup IdArgs \cup (OptTeamKeyArgs \ {NONE, ""})
                 \cup {TeamKeyList[k] : k \in DOMAIN TeamKeyList} \cup {"x", "T", "P"}
    IN  given \cup {upper(v) : v \in given}

\* Another call of list_issues supplies the same arguments as this one.
SameSupplied(a, b) == \A f \in ListIssuesFilters : (a[f] = NONE) <=> (b[f] = NONE)

\* C14: no caller-supplied string is part of the text of a dispatched query or
\* mutation, and the text list_issues dispatches is the same for every choice of
\* values of the arguments supplied.
C14_NoCallerStringInQueryText ==
    /\ \A i \in 1..Len(calls) : TextOf(calls[i]) \cap CallerStrings = {}
    /\ (op = "list_issues" /\ calls # <<>>) =>
          \A b \in Optionals(ListIssuesFilters, MaxOpts) :
              SameSupplied(args.filters, b) => list_issues_query(b, args.limit).text = calls[1].text

\* The same, for the tools of src/src/linear.py alone and values that are not
\* empty: the part of C14 the catalogue keeps.
C14_CatalogueBindsVariables ==
    \A i \in 1..Len(calls) :
        calls[i].by \notin {"main.list_issues", "main.get_issue", "main.create_issue", "main.list_projects"}
            => TextOf(calls[i]) \cap CallerStrings = {}

\* ---------------------------------------------------------------- resolvers' contract

\* Request i of the invocation is the dispatch of a resolver of client.py.
ByResolver(i) == calls[i].by \in {"get_team_id", "get_issue_id"}

\* The key or identifier that the resolver dispatching request i was given.
ResolverInput(i) ==
    IF op = "create_project" THEN args.team_keys[i]
    ELSE IF calls[i].by = "get_issue_id" THEN args.identifier
    ELSE args.team_key

\* The spellings of s that differ from it only in letter case.
CaseVariants(s) ==
    {t \in {"eng", "Eng", "ENG", "ops", "OPS", "eng-1", "Eng-1", "ENG-1"} : upper(t) = upper(s)}

\* The answered resolver calls that returned an id.
ResolverReturns ==
    {i \in 1..Len(resps) :
        ByResolver(i) /\ CleanResponse(resps[i]) /\ RemoteData(resps[i]).kind = "map"
            /\ Nodes(RemoteData(resps[i])) # <<>>}

\* C15: a resolver makes one round trip, binds the upper-cased key or
\* identifier (so every spelling of it dispatches the same request), returns
\* the id of the first node the remote sent, and raises not-found exactly when
\* the remote sent no node.
C15_ResolverContract ==
    /\ \A i \in 1..Len(calls) :
          ByResolver(i) =>
              /\ calls[i].variables =
                    (IF calls[i].by = "get_team_id" THEN [key |-> upper(ResolverInput(i))]
                     ELSE [id |-> upper(ResolverInput(i))])
              /\ \A t \in CaseVariants(ResolverInput(i)) :
                    calls[i] = (IF calls[i].by = "get_team_id" THEN get_team_id_call(t)
                                ELSE get_issue_id_call(t))
              /\ \A j \in 1..(i - 1) : j \in ResolverReturns
    /\ \A i \in 1..Len(resps) :
          ByResolver(i) =>
              /\ i \in ResolverReturns =>
                    /\ Len(resolved) >= i
                    /\ resolved[i] = Nodes(RemoteData(resps[i]))[1]
              /\ ZeroMatch(resps[i]) <=> (i = Len(calls) /\ pc = "done" /\ NotFound(outcome))
    /\ (calls # <<>> /\ ByResolver(1)) => Len(resolved) = Cardinality(ResolverReturns)

C15_Witness ==
    /\ op = "delete_issue"
    /\ args.identifier = "eng-1"
    /\ calls[1].variables = [id |-> "ENG-1"]
    /\ resolved = <<"id2">>
    /\ Nodes(RemoteData(resps[1])) = <<"id2", "id1">>
    /\ Finished
    /\ outcome.kind = "return"

\* ---------------------------------------------------------------- parser's contract

\* The parser has run on the node in args.
Parsed(o) == op = o /\ pc = "done"

\* What a relationship holds under key k (None when it holds nothing there).
Held(rel, k) == IF rel[k] \in {ABSENT, NULL} THEN NONE ELSE rel[k]

\* The flattened name and id of a relationship are None when it is absent or
\* null, and its name and id when it is a mapping.
Flattened(rel, name, id) ==
    IF rel.kind \in {ABSENT, NULL}
    THEN name = NONE /\ id = NONE
    ELSE name = Held(rel, "name") /\ id = Held(rel, "id")

RelationshipsFlattened(i, out) ==
    /\ Flattened(i.state, out.state, out.state_id)
    /\ Flattened(i.assignee, out.assignee, out.assignee_id)
    /\ Flattened(i.project, out.project, out.project_id)
    /\ Flattened(i.cycle, NONE, out.cycle_id)
    /\ Flattened(i.parent, NONE, out.parent_id)

\* C16: the parser raises on no missing relationship. Whatever state, assignee,
\* project, cycle and parent of an issue node and user of a comment node are
\* (absent, null or a mapping), parsing does not fail on them: it succeeds on
\* every node whose label list can be read, and the flattened name and id are
\* None for an absent or null relationship and the mapping's name and id
\* otherwise.
C16_RelationshipsNeverRaise ==
    /\ Parsed("parse_issue") =>
          IF outcome.kind = "raise"
          THEN args.labels.kind = NULL \/ args.labels.list = NULL
          ELSE RelationshipsFlattened(args, outcome.value)
    /\ Parsed("parse_comment") =>
          /\ outcome.kind = "return"
          /\ Flattened(args.user, outcome.value.user, outcome.value.user_id)

C16_Witness ==
    /\ Parsed("parse_issue")
    /\ args.state.kind = NULL
    /\ args.assignee.kind = ABSENT
    /\ args.project.kind = "map" /\ args.project.name = "Name"
    /\ args.cycle.kind = "map"
    /\ outcome.kind = "return"
    /\ outcome.value.state = NONE
    /\ outcome.value.assignee_id = NONE
    /\ outcome.value.project = "Name"
    /\ outcome.value.cycle_id = "r2"

\* C17: labels and label_ids of a parsed Issue have the length of the node's
\* label list, and their k-th elements are the name and the id of its k-th
\* label node.
C17_LabelsParallel ==
    (Parsed("parse_issue") /\ outcome.kind = "return") =>
        LET nodes == IF args.labels.kind = "map" /\ args.labels.list = "list"
                     THEN args.labels.nodes ELSE <<>>
            issue == outcome.value
        IN  /\ Len(issue.labels) = Len(nodes)
            /\ Len(issue.label_ids) = Len(nodes)
            /\ \A k \in 1..Len(nodes) :
                  issue.labels[k] = nodes[k].name /\ issue.label_ids[k] = nodes[k].id

C17_Witness ==
    /\ Parsed("parse_issue")
    /\ outcome.kind = "return"
    /\ outcome.value.labels = <<"ui", "bug">>
    /\ outcome.value.label_ids = <<"L2", "L1">>

\* C18: a node whose `labels` is absent or null parses, and labels and
\* label_ids of the record are empty sequences.
C18_NoLabelListParsesToEmpty ==
    (Parsed("parse_issue") /\ args.labels.kind \in {ABSENT, NULL}) =>
        /\ outcome.kind = "return"
        /\ outcome.value.labels = <<>>
        /\ outcome.value.label_ids = <<>>

\* The part of C18 that the parser keeps: an absent `labels`.
C18_AbsentLabelsParseToEmpty ==
    (Parsed("parse_issue") /\ args.labels.kind = ABSENT) =>
        /\ outcome.kind = "return"
        /\ outcome.value.labels = <<>>
        /\ outcome.value.label_ids = <<>>

\* C19: the priority of a parsed Issue is None or one of 0..4, and a node whose
\* priority is 5 does not parse.
C19_PriorityInRange ==
    Parsed("parse_issue") =>
        /\ outcome.kind = "return" =>
              outcome.value.priority.kind = "None" \/ outcome.value.priority.n \in 0..4
        /\ (args.priority.kind = "int" /\ args.priority.n = 5) => outcome.kind = "raise"

\* ---------------------------------------------------------------- page size

\* A listing of issues has returned.
IssuesListed ==
    /\ Finished
    /\ op \in {"list_issues", "main_list_issues"}
    /\ outcome.kind = "return"

\* C20: list_issues returns at most `limit` issues whatever the remote answers,
\* and returns the empty sequence when the remote answers with no node.
C20_AtMostLimitIssues ==
    /\ IssuesListed => Len(outcome.value.items) <= args.limit
    /\ (Finished /\ op \in {"list_issues", "main_list_issues"} /\ ZeroMatch(Last(resps))) =>
          outcome = Return(List("Issue", <<>>))

\* The part of C20 that list_issues keeps: it returns one Issue for each node
\* the remote sent, in the remote's order, and so no more than `limit` when the
\* remote sent no more than that, and the empty sequence when it sent none.
C20_OneIssuePerNode ==
    /\ IssuesListed => outcome = Return(List("Issue", Nodes(RemoteData(Last(resps)))))
    /\ (Finished /\ op \in {"list_issues", "main_list_issues"} /\ ZeroMatch(Last(resps))) =>
          outcome = Return(List("Issue", <<>>))

\* ---------------------------------------------------------------- independence

\* What an invocation that runs alone has dispatched, holds and has returned
\* once it has received the answers rs.
Ran(c, label, ids, out) == [calls |-> c, pc |-> label, resolved |-> ids, outcome |-> out]

\* A tool that resolves an identifier and then acts: c1 is the resolver's
\* request, id what the resolver makes of the first answer, early what the tool
\* raises between the two steps (NoOutcome when nothing), c2 its own request
\* and out what it makes of the second answer.
AloneResolveThenAct(rs, c1, id, early, c2, out) ==
    IF rs = <<>> THEN Ran(<<c1>>, "resolve", <<>>, NoOutcome)
    ELSE IF id.kind = "raise" THEN Ran(<<c1>>, "done", <<>>, id)
    ELSE IF early # NoOutcome THEN Ran(<<c1>>, "done", <<id.value>>, early)
    ELSE IF Len(rs) = 1 THEN Ran(<<c1, c2>>, "act", <<id.value>>, NoOutcome)
    ELSE Ran(<<c1, c2>>, "done", <<id.value>>, out)

Alone(o, a, rs) ==
    CASE o = "get_issue" ->
            IF rs = <<>> THEN Ran(<<get_issue_query(a.identifier)>>, "act", <<>>, NoOutcome)
            ELSE Ran(<<get_issue_query(a.identifier)>>, "done", <<>>, get_issue_return(gql(rs[1])))
      [] o = "delete_issue" ->
            LET id == get_issue_id(a.identifier, rs[1])
            IN  AloneResolveThenAct(rs, get_issue_id_call(a.identifier), id, NoOutcome,
                                    delete_issue_mutation(<<id.value>>), Deleted(gql(rs[2])))
      [] o = "update_issue" ->
            LET id == get_issue_id(a.identifier, rs[1])
                input_data == update_issue_input(a.opts)
            IN  AloneResolveThenAct(rs, get_issue_id_call(a.identifier), id,
                                    IF DOMAIN input_data = {} THEN NoFieldsToUpdate ELSE NoOutcome,
                                    update_issue_mutation(id.value, input_data),
                                    Created("Issue", "Failed to update issue", gql(rs[2])))
      [] OTHER -> Ran(<<>>, "idle", <<>>, NoOutcome)

\* The invocation with locals f is where it would be had it run alone and
\* received the same answers.
AsAlone(f) ==
    (f.pc # "idle") =>
        LET alone == Alone(f.op, f.args, f.resps)
        IN  /\ f.calls = alone.calls
            /\ f.pc = alone.pc
            /\ f.resolved = alone.resolved
            /\ f.outcome = alone.outcome

\* C21: however the invocations in flight are interleaved at their awaits, the
\* requests each one has dispatched and the result it returns are those of the
\* same invocation running alone against the same answers.
C21_InvocationsIndependent ==
    /\ AsAlone(Frame)
    /\ \A k \in 1..Len(suspended) : AsAlone(suspended[k])

\* Two invocations in flight at once, each between its two round trips, and
\* then one of them finished while the other still waits.
C21_Witness ==
    /\ Len(suspended) >= 1
    /\ op = "update_issue"
    /\ pc = "done"
    /\ Len(resps) = 2
    /\ outcome.kind = "return"
    /\ suspended[1].op = "delete_issue"
    /\ suspended[1].pc = "act"
    /\ suspended[1].resolved # resolved

\* ---------------------------------------------------------------- updates with nothing to change

\* C22: update_project and update_document called with every optional argument
\* omitted raise the invalid-argument error at once, and nothing is dispatched.
C22_UpdateNoFieldsNoDispatch ==
    (op \in {"update_project", "update_document"} /\ NothingSupplied) =>
        /\ calls = <<>>
        /\ resps = <<>>
        /\ pc = "done"
        /\ InvalidArgument(outcome)

C22_Witness ==
    /\ op = "update_project"
    /\ NothingSupplied
    /\ pc = "done"
    /\ InvalidArgument(outcome)
    /\ calls = <<>>

\* ---------------------------------------------------------------- variables of list_issues

\* The variable a piece of the query text declares, and the one it refers to
\* ("" when the piece does neither).
DeclaredIn(t) ==
    CASE t = "$first: Int!" -> "first"
      [] t = "$teamKey: String!" -> "teamKey"
      [] t = "$assigneeId: ID!" -> "assigneeId"
      [] t = "$stateId: ID!" -> "stateId"
      [] t = "$projectId: ID!" -> "projectId"
      [] t = "$cycleId: ID!" -> "cycleId"
      [] OTHER -> ""

ReferredIn(t) ==
    CASE t = ") { issues(first: $first, " -> "first"
      [] t = "team: { key: { eq: $teamKey } }" -> "teamKey"
      [] t = "assignee: { id: { eq: $assigneeId } }" -> "assigneeId"
      [] t = "state: { id: { eq: $stateId } }" -> "stateId"
      [] t = "project: { id: { eq: $projectId } }" -> "projectId"
      [] t = "cycle: { id: { eq: $cycleId } }" -> "cycleId"
      [] OTHER -> ""

Declarations(req) == {k \in DOMAIN req.text : DeclaredIn(req.text[k]) # ""}
References(req) == {k \in DOMAIN req.text : ReferredIn(req.text[k]) # ""}

\* The variable of a filter argument.
VariableOf(f) ==
    CASE f = "team_key" -> "teamKey"
      [] f = "assignee_id" -> "assigneeId"
      [] f = "state_id" -> "stateId"
      [] f = "project_id" -> "projectId"
      [] f = "cycle_id" -> "cycleId"

\* The filters list_issues takes as present: the ones that are neither omitted
\* nor the empty string.
PresentFilters == {f \in ListIssuesFilters : args.filters[f] \notin {NONE, ""}}

\* C23: in the query list_issues dispatches, the variables declared in the
\* signature, the variables the body refers to and the keys of the variables
\* mapping are the same set, the page size and one variable per present filter,
\* each declared once and referred to once, whatever filters are omitted, empty
\* or given.
C23_DeclaredReferredBound ==
    (op = "list_issues" /\ calls # <<>>) =>
        LET req == calls[1]
            declared == {DeclaredIn(req.text[k]) : k \in Declarations(req)}
            referred == {ReferredIn(req.text[k]) : k \in References(req)}
            wanted == {"first"} \cup {VariableOf(f) : f \in PresentFilters}
        IN  /\ declared = referred
            /\ referred = DOMAIN req.variables
            /\ declared = wanted
            /\ Cardinality(Declarations(req)) = Cardinality(wanted)
            /\ Cardinality(References(req)) = Cardinality(wanted)

C23_Witness ==
    /\ op = "list_issues"
    /\ Finished
    /\ args.filters.team_key = "x"
    /\ args.filters.assignee_id = ""
    /\ args.filters.cycle_id = "x"
    /\ args.filters.state_id = NONE
    /\ DOMAIN calls[1].variables = {"first", "teamKey", "cycleId"}

\* ---------------------------------------------------------------- the client's return value

\* What the client that dispatched request i returns for its answer.
ClientResult(i) ==
    IF calls[i].by \in {"main.get_me", "main.list_teams", "main.list_issues", "main.get_issue",
                        "main.create_issue", "main.search_issues", "main.list_projects"}
    THEN graphql_request(resps[i])
    ELSE gql(resps[i])

\* C24: for every answer with a successful transport, a status below 400 and no
\* `errors` in the body, a null `data` included, the client returns a mapping,
\* and the caller's lookups on it do not fail on a value that is not a mapping.
C24_CleanAnswerGivesMapping ==
    \A i \in 1..Len(resps) :
        CleanResponse(resps[i]) =>
            /\ ClientResult(i).kind = "return"
            /\ ClientResult(i).value.kind = "map"
            /\ ~(pc = "done" /\ i = Len(calls) /\ outcome = AttributeError)

\* The part of C24 that the clients keep: a mapping for every such answer whose
\* `data` is not null.
C24_MappingUnlessNullData ==
    \A i \in 1..Len(resps) :
        (CleanResponse(resps[i]) /\ RemoteData(resps[i]).kind # NULL) =>
            /\ ClientResult(i).kind = "return"
            /\ ClientResult(i).value.kind = "map"

\* ---------------------------------------------------------------- projects of a team

\* A projects query that is filtered by the team id.
FilteredByTeam(req, id) ==
    \/ /\ req.by = "list_projects"
       /\ req.text = <<"query($first: Int!, $teamId: ID!) { projects(first: $first, filter: { accessibleTeams: { id: { eq: $teamId } } }) { nodes { id name description state url } } }">>
       /\ "teamId" \in DOMAIN req.variables
       /\ req.variables.teamId = id
    \/ /\ req.by = "main.list_projects"
       /\ \E k \in 1..(Len(req.text) - 2) :
             /\ req.text[k] = "filter: { accessibleTeams: { id: { eq: \""
             /\ req.text[k + 1] = id
             /\ req.text[k + 2] = "\" } } }"

\* o was called with a team key, and every projects query it has dispatched
\* follows a lookup that found a team and is filtered by the id of that team;
\* a lookup that finds no team ends the invocation with the not-found error.
OnlyProjectsOfTheTeam(o) ==
    (op = o /\ Truthy(args.team_key)) =>
        /\ \A i \in 1..Len(calls) :
              calls[i].root = "projects" =>
                  /\ i = 2
                  /\ CleanResponse(resps[1])
                  /\ Nodes(RemoteData(resps[1])) # <<>>
                  /\ FilteredByTeam(calls[i], Nodes(RemoteData(resps[1]))[1])
        /\ (resps # <<>> /\ ZeroMatch(resps[1])) =>
              /\ Len(calls) = 1
              /\ pc = "done"
              /\ NotFound(outcome)

\* C25: list_projects called with a team_key dispatches a projects query only
\* after the key resolved, filtered by the resolved team id; when the key
\* matches no team it raises not-found and dispatches no projects query.
C25_NeverUnfilteredProjects ==
    /\ OnlyProjectsOfTheTeam("list_projects")
    /\ OnlyProjectsOfTheTeam("main_list_projects")

\* The part of C25 that holds: the list_projects of src/src/linear.py.
C25_CatalogueListProjects == OnlyProjectsOfTheTeam("list_projects")

====
